---- MODULE Spec2Model ----
(***************************************************************************)
(* Model of the workshop Worker (src/unnamed/part_000): the fetch handler, *)
(* its request routing and proxy fallback, the session / example runners   *)
(* and the sandbox platform state they act on, and the CSV sniffing        *)
(* function.                                                               *)
(*                                                                         *)
(* Strings are sequences of tokens.  A token is a single character ("8",   *)
(* "-", "/", ":", ",") or a run of characters that no string operation of  *)
(* the code looks inside ("api", ".localhost", "fundamentals").            *)
(***************************************************************************)
EXTENDS Integers, Sequences, FiniteSets, TLC

(***************************************************************************)
(* String helpers (JavaScript semantics, 0-based indices where JS has them)*)
(***************************************************************************)
StartsWith(s, p) == Len(s) >= Len(p) /\ SubSeq(s, 1, Len(p)) = p

EndsWith(s, p) == Len(s) >= Len(p) /\ SubSeq(s, Len(s) - Len(p) + 1, Len(s)) = p

\* String.prototype.indexOf for a one-token needle: 0-based, -1 when absent.
IndexOf(s, c) ==
  IF \E i \in 1..Len(s) : s[i] = c
  THEN (CHOOSE i \in 1..Len(s) : s[i] = c /\ \A j \in 1..(i - 1) : s[j] # c) - 1
  ELSE -1

\* String.prototype.slice(from) and slice(from, to), 0-based.
SliceFrom(s, from) == SubSeq(s, from + 1, Len(s))

SliceTo(s, from, to) == SubSeq(s, from + 1, to)

Digits == {"0", "1", "2", "3", "4", "5", "6", "7", "8", "9"}

Undefined == "undefined"

(***************************************************************************)
(* Hostname predicates and Host-header splitting                           *)
(***************************************************************************)
\* /^\d+-/.test(hostname) && hostname.endsWith('.localhost')
isLikelyPreviewHostname(hostname) ==
  /\ \E n \in 1..(Len(hostname) - 1) :
       /\ \A i \in 1..n : hostname[i] \in Digits
       /\ hostname[n + 1] = "-"
  /\ EndsWith(hostname, <<".localhost">>)

isLocalHostname(hostname) ==
  \/ hostname = <<"localhost">>
  \/ EndsWith(hostname, <<".localhost">>)
  \/ hostname = <<"127.0.0.1">>

\* hostValue.split(':'): the pieces between ":" tokens.
RECURSIVE SplitOn(_, _)
SplitOn(s, sep) ==
  IF IndexOf(s, sep) = -1
  THEN <<s>>
  ELSE <<SliceTo(s, 0, IndexOf(s, sep))>> \o SplitOn(SliceFrom(s, IndexOf(s, sep) + 1), sep)

\* const [hostname, port] = hostValue.split(':').  A port is a one-token
\* string; <<>> stands for both undefined (no second piece) and '', which
\* every caller treats alike (if (port) ...).
splitHostAndPort(hostValue) ==
  LET parts == SplitOn(hostValue, ":")
  IN [hostname |-> parts[1],
      port |-> IF Len(parts) >= 2 THEN parts[2] ELSE <<>>]

(***************************************************************************)
(* URL objects: [hostname, port, pathname, search].  port "" is the        *)
(* scheme's default port; search is the sequence of <<key, value>> pairs   *)
(* of the query string.                                                    *)
(***************************************************************************)
PortOf(piece) == IF Len(piece) = 1 THEN piece[1] ELSE ""

\* decodeURIComponent: "%3A" and "%2F" are well-formed escapes, "%" and "%zz"
\* are malformed and make it throw URIError.
MalformedEscapes == {"%", "%zz"}

decodeThrows(s) == \E i \in 1..Len(s) : s[i] \in MalformedEscapes

decodeURIComponent(s) ==
  [i \in 1..Len(s) |->
     CASE s[i] = "%3A" -> ":"
       [] s[i] = "%2F" -> "/"
       [] OTHER -> s[i]]

\* The URL "host" setter: parses hostname[:port] up to the first "/"; an
\* empty hostname is a failure that leaves the URL unchanged; without a
\* port in the value the URL keeps its port.
SetHost(url, value) ==
  LET upto == IF IndexOf(value, "/") = -1 THEN value ELSE SliceTo(value, 0, IndexOf(value, "/"))
      hp == splitHostAndPort(upto)
  IN IF hp.hostname = <<>>
     THEN url
     ELSE [url EXCEPT !.hostname = hp.hostname,
                      !.port = IF hp.port = <<>> THEN @ ELSE PortOf(hp.port)]

(***************************************************************************)
(* Paths of the Worker                                                     *)
(***************************************************************************)
LOCAL_PREVIEW_PROXY_PREFIX == <<"/", "__sandbox_preview">>

PathWsTerminal == <<"/", "ws", "/", "terminal">>

PathTerminalBootstrap == <<"/", "api", "/", "terminal", "/", "bootstrap">>

PrefixSessionsNoSlash == <<"/", "api", "/", "sessions">>

PrefixSessions == <<"/", "api", "/", "sessions", "/">>

PrefixExamples == <<"/", "api", "/", "examples", "/">>

PathGenerate == PrefixExamples \o <<"ai-generated-code", "/", "generate">>

PathIndexHtml == <<"/", "index.html">>

(***************************************************************************)
(* Identifiers                                                             *)
(***************************************************************************)
SessionIds == {"fundamentals", "executing-code", "data-workflows", "preview-workflows", "automation-ci"}

ExampleIds == {"ai-generated-code", "data-analysis", "interactive-dev", "ci-testing", "security-untrusted"}

\* Properties every ordinary JavaScript object inherits from Object.prototype.
ObjectPrototypeKeys == {"constructor", "toString", "__proto__"}

\* sessionById[id]: sessionById is an ordinary object (Object.fromEntries), so
\* the lookup finds own properties and inherited ones.
sessionById(id) ==
  IF Len(id) = 1 /\ id[1] \in SessionIds THEN "definition"
  ELSE IF Len(id) = 1 /\ id[1] \in ObjectPrototypeKeys THEN "inherited"
  ELSE Undefined

\* exampleById[id], of the same construction.
exampleById(id) ==
  IF Len(id) = 1 /\ id[1] \in ExampleIds THEN "definition"
  ELSE IF Len(id) = 1 /\ id[1] \in ObjectPrototypeKeys THEN "inherited"
  ELSE Undefined

\* RunnerSandboxId with runUntrustedCode's identifier copied from runCiTesting.
RunnerSandboxIdCopied(runner) ==
  CASE runner = "runSessionFundamentals" -> "workshop-session-fundamentals"
    [] runner = "handleTerminalBootstrap" -> "workshop-terminal"
    [] runner = "runAiGeneratedCode" -> "workshop-ai-generated-code"
    [] runner = "runDataAnalysis" -> "workshop-data-analysis"
    [] runner = "runInteractiveDevPreview" -> "workshop-interactive-dev"
    [] runner = "runCiTesting" -> "workshop-ci-testing"
    [] runner = "runUntrustedCode" -> "workshop-ci-testing"

\* The sandbox identifier each runner passes to getSandbox.
RunnerSandboxId(runner) ==
  CASE runner = "runSessionFundamentals" -> "workshop-session-fundamentals"
    [] runner = "handleTerminalBootstrap" -> "workshop-terminal"
    [] runner = "runAiGeneratedCode" -> "workshop-ai-generated-code"
    [] runner = "runDataAnalysis" -> "workshop-data-analysis"
    [] runner = "runInteractiveDevPreview" -> "workshop-interactive-dev"
    [] runner = "runCiTesting" -> "workshop-ci-testing"
    [] runner = "runUntrustedCode" -> "workshop-security-untrusted"

\* switch (id) of runSession and of runExample: the runner a known id runs;
\* Undefined when no case matches (the function then returns undefined).
runSessionCase(id) ==
  CASE id = <<"fundamentals">> -> "runSessionFundamentals"
    [] id = <<"executing-code">> -> "runAiGeneratedCode"
    [] id = <<"data-workflows">> -> "runDataAnalysis"
    [] id = <<"preview-workflows">> -> "runInteractiveDevPreview"
    [] id = <<"automation-ci">> -> "runCiTesting"
    [] OTHER -> Undefined

runExampleCase(id) ==
  CASE id = <<"ai-generated-code">> -> "runAiGeneratedCode"
    [] id = <<"data-analysis">> -> "runDataAnalysis"
    [] id = <<"interactive-dev">> -> "runInteractiveDevPreview"
    [] id = <<"ci-testing">> -> "runCiTesting"
    [] id = <<"security-untrusted">> -> "runUntrustedCode"
    [] OTHER -> Undefined

TerminalSessionId == "live-terminal"

PreviewProcessId == "preview-server"

(***************************************************************************)
(* State                                                                   *)
(***************************************************************************)
\* Bounds of the model: sandbox evictions, and code contexts created, in a run.
MaxEvictions == 1

MaxContexts == 2

\* Requests the Worker may be handling at the same time.
Slots == {"r1", "r2"}

VARIABLES
  slot,       \* per request in flight: its position in fetch and its locals
  sessions,   \* platform: the <<sandboxId, sessionId>> sessions that exist
  proc,       \* platform: process 'preview-server': "absent", "started", "waited"
  exposed,    \* platform: port 8080 of 'workshop-interactive-dev' is exposed
  ctxRuns,    \* platform: per code context created, the number of runs in it
  evictions,  \* number of times the platform dropped a sandbox's state
  files,      \* platform: /workspace/data of 'workshop-data-analysis'
  overlap,    \* history: two requests were in flight at the same time
  csv,        \* buildCsvStructure: the CSV text given
  structure,  \* buildCsvStructure: the structure returned, once computed
  preview,    \* preview URLs: the URLs built for a request, and their round trip
  ui,         \* the React UI: the page shown, its component state, requests in flight
  script,     \* sanitizePython / stripBlockingPatterns: the text given and returned
  lab         \* the TerminalLab component: its effects and what they created

vars ==
  <<slot, sessions, proc, exposed, ctxRuns, evictions, files, overlap, csv, structure, preview, ui,
    script, lab>>

\* The state that is not the Worker's requests or the platform.
Elsewhere == <<csv, structure, preview, ui, script, lab>>

NoUrl == [hostname |-> <<>>, port |-> "", pathname |-> <<>>, search |-> <<>>]

NoRequest ==
  [url |-> NoUrl, hostHeader |-> <<>>, method |-> "GET", body |-> "none",
   prompt |-> Undefined, upgrade |-> Undefined, input |-> Undefined]

Response(kind, status, ok, id, sandboxId, sessionId) ==
  [kind |-> kind, status |-> status, ok |-> ok, id |-> id, sandboxId |-> sandboxId, sessionId |-> sessionId]

NoResponse == Response("none", 0, "absent", <<>>, "", "")

\* The handler rejected: an exception left fetch uncaught.
Threw == Response("threw", 0, "absent", <<>>, "", "")

\* Whatever proxyToSandbox / proxyTerminal / env.ASSETS.fetch returned.
Passed(kind, status) == Response(kind, status, "absent", <<>>, "", "")

\* json(data, status) for the bodies { ok, ... }.
json(ok, status, id) == Response("json", status, ok, id, "", "")

\* json(undefined): JSON.stringify(undefined) is undefined, an empty 200 body.
jsonOfUndefined == Response("empty", 200, "absent", <<>>, "", "")

\* Locals of runDataAnalysis.
\* Locals of withTimeout: the timer ("none", "armed", "fired") and the
\* Error its callback rejects with.
NoTimeout == [timer |-> "none", set |-> 0, cleared |-> 0, error |-> [label |-> "", ms |-> 0]]

NoAnalysis ==
  [code |-> "", usedAiFallback |-> FALSE, usedExecutionFallback |-> FALSE,
   success |-> FALSE, chart |-> "skipped", chartDataUri |-> FALSE,
   csv |-> "", steps |-> <<>>, ai |-> "none", exec |-> "none", execFallback |-> "none",
   charted |-> "none", read |-> "none", ran |-> "none", chartFrom |-> "none",
   chartError |-> [label |-> "", ms |-> 0], wt |-> NoTimeout]

\* The fields of a runner's result besides ok: which summary it carries,
\* whether the sandbox execution behind it succeeded, exitCode, stderr.
NoResult == [summary |-> "none", succeeded |-> FALSE, exitCode |-> -1, stderr |-> "none"]

IdleSlot ==
  [pc |-> "idle", req |-> NoRequest, handlers |-> <<>>, proxyCalls |-> <<>>,
   bodyRead |-> FALSE, ops |-> <<>>, via |-> "", id |-> <<>>, runner |-> Undefined,
   ctx |-> 0, procSeen |-> "none", procAtLookup |-> "none", procAtStart |-> "none", sessionSeen |-> "none", sessionAtCreate |-> "none",
   assetFetches |-> <<>>,
   terminal |-> <<>>, size |-> <<0, 0>>, da |-> NoAnalysis, result |-> NoResult,
   resp |-> NoResponse]

\* /workspace/data before the first request: no input.csv, no chart.png.
\* A file present is named by the CSV text it holds or was drawn from.
NoFiles == [inputCsv |-> "absent", chartPng |-> "absent"]

InitWorker ==
  /\ slot = [s \in Slots |-> IdleSlot]
  /\ sessions = {}
  /\ proc = "absent"
  /\ exposed = FALSE
  /\ ctxRuns = <<>>
  /\ evictions = 0
  /\ files = NoFiles
  /\ overlap = FALSE

NoStructure == [rows |-> -1, columns |-> <<>>, dtypes |-> <<>>, sample |-> <<>>]

\* RunnerState: { loading: false }, with data and error absent ("none").
\* A data or error present is named by the page whose request produced it.
IdleRunner == [loading |-> FALSE, data |-> "none", error |-> "none"]

NoUi ==
  [page |-> [kind |-> "none", id |-> "none"], mount |-> 0, state |-> IdleRunner,
   generating |-> FALSE, requests |-> <<>>]

NoScript == [stage |-> "none", fn |-> "none", given |-> <<>>, returned |-> <<>>, again |-> <<>>]

\* TerminalLab before its first mount: no effect has run.  lab is the
\* sequence of the effect runs so far, each with the locals of its closure.
NoLab == <<>>

NoPreview ==
  [stage |-> "none", requestUrl |-> NoUrl, exposedAt |-> NoUrl, directPreviewUrl |-> NoUrl,
   localFallbackPreviewUrl |-> [defined |-> FALSE, url |-> NoUrl], proxyTarget |-> NoUrl]

Init ==
  /\ InitWorker
  /\ csv = <<>>
  /\ structure = NoStructure
  /\ preview = NoPreview
  /\ ui = NoUi
  /\ script = NoScript
  /\ lab = NoLab

InFlight(s) == slot[s].pc # "idle"

Platform == <<sessions, proc, exposed, ctxRuns, evictions, files>>

\* return response
Return(s, r) == slot' = [slot EXCEPT ![s].pc = "done", ![s].resp = r]

Goto(s, pc) == slot' = [slot EXCEPT ![s].pc = pc]

(***************************************************************************)
(* fetch(request)                                                          *)
(***************************************************************************)
\* A request arrives: const url = new URL(request.url)
Receive(s, rq) ==
  /\ slot[s].pc = "idle"
  /\ Len(ctxRuns) + Cardinality({t \in Slots \ {s} : InFlight(t)}) < MaxContexts
  /\ slot' = [slot EXCEPT ![s] = [IdleSlot EXCEPT !.pc = "localPreview", !.req = rq]]
  /\ overlap' = (overlap \/ \E t \in Slots \ {s} : InFlight(t))
  /\ UNCHANGED <<Platform, Elsewhere>>

\* The response leaves the Worker and the request's state is released.
Respond(s) ==
  /\ slot[s].pc = "done"
  /\ slot' = [slot EXCEPT ![s] = IdleSlot]
  /\ UNCHANGED <<Platform, overlap, Elsewhere>>

\* A call of proxyToSandbox: the URL of the request given, and whether a
\* Response came back ("response") or nothing ("null").
ProxyCall(url, returned) == [url |-> url, answered |-> (returned = "response")]

\* The URL handleLocalPreviewProxyRoute hands to proxyToSandbox.
localPreviewTarget(url) ==
  LET rest == SliceFrom(url.pathname, Len(LOCAL_PREVIEW_PROXY_PREFIX) + 1)
      slashIndex == IndexOf(rest, "/")
      encodedHost == IF slashIndex = -1 THEN rest ELSE SliceTo(rest, 0, slashIndex)
      proxiedPath == IF slashIndex = -1 THEN PathIndexHtml ELSE SliceFrom(rest, slashIndex)
      previewHost == decodeURIComponent(encodedHost)
      retargeted == SetHost(url, previewHost)
  IN [retargeted EXCEPT !.pathname = IF proxiedPath = <<>> THEN PathIndexHtml ELSE proxiedPath,
                        !.search = url.search]

localPreviewThrows(url) ==
  LET rest == SliceFrom(url.pathname, Len(LOCAL_PREVIEW_PROXY_PREFIX) + 1)
      slashIndex == IndexOf(rest, "/")
      encodedHost == IF slashIndex = -1 THEN rest ELSE SliceTo(rest, 0, slashIndex)
  IN decodeThrows(encodedHost)

isLocalPreviewPath(pathname) == StartsWith(pathname, LOCAL_PREVIEW_PROXY_PREFIX \o <<"/">>)

\* const localPreviewProxyResponse = await handleLocalPreviewProxyRoute(request, url)
HandleLocalPreviewProxyRoute(s) ==
  /\ slot[s].pc = "localPreview"
  /\ LET url == slot[s].req.url
     IN IF ~isLocalPreviewPath(url.pathname)
        THEN Goto(s, "proxy")
        ELSE IF localPreviewThrows(url)
        THEN Return(s, Threw)
        ELSE \E proxyResponse \in {"response", "null"} :
               slot' = [slot EXCEPT
                 ![s].pc = "done",
                 ![s].handlers = Append(@, "handleLocalPreviewProxyRoute"),
                 ![s].proxyCalls = Append(@, ProxyCall(localPreviewTarget(url), proxyResponse)),
                 ![s].resp = IF proxyResponse = "response"
                             THEN Passed("proxy", 0)
                             ELSE json("false", 502, <<>>)]
  /\ UNCHANGED <<Platform, overlap, Elsewhere>>

hostHeaderName(rq) == splitHostAndPort(rq.hostHeader).hostname

previewCandidate(rq) ==
  isLikelyPreviewHostname(rq.url.hostname) \/ isLikelyPreviewHostname(hostHeaderName(rq))

\* const proxyResponse = await proxyToSandbox(request, env)
ProxyToSandbox(s) ==
  /\ slot[s].pc = "proxy"
  /\ \E proxyResponse \in {"response", "null"} :
       slot' = [slot EXCEPT
         ![s].proxyCalls = Append(@, ProxyCall(slot[s].req.url, proxyResponse)),
         ![s].pc = IF proxyResponse = "response" THEN "done" ELSE "retry",
         ![s].resp = IF proxyResponse = "response" THEN Passed("proxy", 0) ELSE @]
  /\ UNCHANGED <<Platform, overlap, Elsewhere>>

\* needsHostHeaderRetry without the test of the URL's own hostname.
needsHostHeaderRetryAnyUrl(rq) == isLikelyPreviewHostname(hostHeaderName(rq))

needsHostHeaderRetry(rq) ==
  ~isLikelyPreviewHostname(rq.url.hostname) /\ isLikelyPreviewHostname(hostHeaderName(rq))

\* rewrittenUrl.hostname = hostHeaderName; if (port) rewrittenUrl.port = port
rewrittenUrl(rq) ==
  LET port == splitHostAndPort(rq.hostHeader).port
  IN [rq.url EXCEPT !.hostname = hostHeaderName(rq),
                    !.port = IF port = <<>> THEN @ ELSE PortOf(port)]

\* The retry with the Host header's hostname, then the 502 for a preview
\* candidate nothing proxied; otherwise on to the routes.
ProxyRetry(s) ==
  /\ slot[s].pc = "retry"
  /\ LET rq == slot[s].req
     IN \E retryResponse \in {"response", "null"} :
          IF needsHostHeaderRetry(rq)
          THEN slot' = [slot EXCEPT
                 ![s].proxyCalls = Append(@, ProxyCall(rewrittenUrl(rq), retryResponse)),
                 ![s].pc = "done",
                 ![s].resp = IF retryResponse = "response"
                             THEN Passed("proxy", 0)
                             ELSE json("false", 502, <<>>)]
          ELSE /\ retryResponse = "null"
               /\ IF previewCandidate(rq)
                  THEN Return(s, json("false", 502, <<>>))
                  ELSE Goto(s, "route")
  /\ UNCHANGED <<Platform, overlap, Elsewhere>>

\* routeOf with the session test written without its final slash.
routeOfSlashless(pathname) ==
  IF pathname = PathWsTerminal THEN "handleTerminalWebSocket"
  ELSE IF pathname = PathTerminalBootstrap THEN "handleTerminalBootstrap"
  ELSE IF StartsWith(pathname, PrefixSessionsNoSlash) THEN "handleSessionRequest"
  ELSE IF StartsWith(pathname, PrefixExamples) THEN "handleExampleRequest"
  ELSE "serveSpaAssets"

\* The if-chain over url.pathname: the handler that takes the request.
routeOf(pathname) ==
  IF pathname = PathWsTerminal THEN "handleTerminalWebSocket"
  ELSE IF pathname = PathTerminalBootstrap THEN "handleTerminalBootstrap"
  ELSE IF StartsWith(pathname, PrefixSessions) THEN "handleSessionRequest"
  ELSE IF StartsWith(pathname, PrefixExamples) THEN "handleExampleRequest"
  ELSE "serveSpaAssets"

Route(s) ==
  /\ slot[s].pc = "route"
  /\ slot' = [slot EXCEPT ![s].pc = routeOf(slot[s].req.url.pathname),
                          ![s].handlers = Append(@, routeOf(slot[s].req.url.pathname))]
  /\ UNCHANGED <<Platform, overlap, Elsewhere>>

(***************************************************************************)
(* Session and example handlers                                            *)
(***************************************************************************)
\* The first step of each runner.
runnerEntry(runner) ==
  CASE runner = "runSessionFundamentals" -> "f_exec"
    [] runner = "runAiGeneratedCode" -> "a_createCodeContext"
    [] runner = "runDataAnalysis" -> "d_mkdir"
    [] runner = "runInteractiveDevPreview" -> "p_mkdir"
    [] runner = "runCiTesting" -> "c_mkdir"
    [] runner = "runUntrustedCode" -> "u_mkdir"

\* const id = url.pathname.replace(prefix, '')
idOf(pathname, prefix) == SliceFrom(pathname, Len(prefix))

handleSessionRequest(s) ==
  /\ slot[s].pc = "handleSessionRequest"
  /\ LET id == idOf(slot[s].req.url.pathname, PrefixSessions)
     IN IF sessionById(id) = Undefined
        THEN Return(s, json("false", 404, <<>>))
        ELSE IF runSessionCase(id) = Undefined
        THEN Return(s, jsonOfUndefined)
        ELSE slot' = [slot EXCEPT ![s].via = "session", ![s].id = id,
                                  ![s].runner = runSessionCase(id),
                                  ![s].ops = <<<<RunnerSandboxId(runSessionCase(id)), "getSandbox">>>>,
                                  ![s].pc = runnerEntry(runSessionCase(id))]
  /\ UNCHANGED <<Platform, overlap, Elsewhere>>

\* request.json() of a body: throws unless the body is JSON.
bodyParses(rq) == rq.body = "json"

handleExampleRequest(s) ==
  /\ slot[s].pc = "handleExampleRequest"
  /\ LET rq == slot[s].req
         id == idOf(rq.url.pathname, PrefixExamples)
     IN IF rq.url.pathname = PathGenerate
        THEN slot' = [slot EXCEPT ![s].pc = "handleAiCodeGeneration",
                                  ![s].handlers = Append(@, "handleAiCodeGeneration")]
        ELSE IF exampleById(id) = Undefined
        THEN Return(s, json("false", 404, <<>>))
        ELSE IF rq.method = "POST" /\ ~bodyParses(rq)
        THEN slot' = [slot EXCEPT ![s].bodyRead = TRUE, ![s].pc = "done",
                                  ![s].resp = json("false", 500, id)]
        ELSE IF runExampleCase(id) = Undefined
        THEN slot' = [slot EXCEPT ![s].bodyRead = (rq.method = "POST"), ![s].pc = "done",
                                  ![s].resp = jsonOfUndefined]
        ELSE slot' = [slot EXCEPT ![s].bodyRead = (rq.method = "POST"),
                                  ![s].via = "example", ![s].id = id,
                                  ![s].runner = runExampleCase(id),
                                  ![s].ops = <<<<RunnerSandboxId(runExampleCase(id)), "getSandbox">>>>,
                                  ![s].pc = runnerEntry(runExampleCase(id))]
  /\ UNCHANGED <<Platform, overlap, Elsewhere>>

\* body.prompt?.trim(): "" for a missing or whitespace-only prompt.
trimmedPrompt(rq) == IF rq.prompt \in {Undefined, " "} THEN "" ELSE rq.prompt

handleAiCodeGeneration(s) ==
  /\ slot[s].pc = "handleAiCodeGeneration"
  /\ LET rq == slot[s].req
     IN IF rq.method # "POST"
        THEN Return(s, json("false", 405, <<>>))
        ELSE IF ~bodyParses(rq)
        THEN slot' = [slot EXCEPT ![s].bodyRead = TRUE, ![s].pc = "done", ![s].resp = Threw]
        ELSE IF trimmedPrompt(rq) = ""
        THEN slot' = [slot EXCEPT ![s].bodyRead = TRUE, ![s].pc = "done",
                                  ![s].resp = json("false", 400, <<>>)]
        ELSE \E ai \in {"ok", "throw"} :
               slot' = [slot EXCEPT ![s].bodyRead = TRUE, ![s].pc = "done",
                                    ![s].ops = Append(@, <<"AI", "run">>),
                                    ![s].resp = IF ai = "ok" THEN json("true", 200, <<>>) ELSE Threw]
  /\ UNCHANGED <<Platform, overlap, Elsewhere>>

\* url.pathname.includes('.')
DotTokens == {"index.html", "app.js"}

\* includesDot of a fallback that also replaces the 404 of a file path.
includesDotNever(pathname) == FALSE

\* url.pathname.includes('.')
includesDot(pathname) == \E i \in 1..Len(pathname) : pathname[i] \in DotTokens

\* Statuses env.ASSETS.fetch answers with.
AssetStatuses == {200, 304, 404}

\* await env.ASSETS.fetch(request): the response of the asset binding for a path.
assetFetch(pathname, status) == [path |-> pathname, status |-> status]

assetResponse(fetched) == Response("asset", fetched.status, "absent", fetched.path, "", "")

serveSpaAssets(s) ==
  /\ slot[s].pc = "serveSpaAssets"
  /\ LET pathname == slot[s].req.url.pathname
     IN \E status \in AssetStatuses, indexStatus \in AssetStatuses :
          IF status # 404 \/ includesDot(pathname)
          THEN /\ indexStatus = 200
               /\ slot' = [slot EXCEPT
                    ![s].assetFetches = <<assetFetch(pathname, status)>>,
                    ![s].pc = "done", ![s].resp = assetResponse(assetFetch(pathname, status))]
          ELSE slot' = [slot EXCEPT
                 ![s].assetFetches = <<assetFetch(pathname, status), assetFetch(PathIndexHtml, indexStatus)>>,
                 ![s].pc = "done", ![s].resp = assetResponse(assetFetch(PathIndexHtml, indexStatus))]
  /\ UNCHANGED <<Platform, overlap, Elsewhere>>

(***************************************************************************)
(* Sandbox operations of the runners                                       *)
(***************************************************************************)
SandboxOf(s) == RunnerSandboxId(slot[s].runner)

\* The catch of handleSessionRequest / handleExampleRequest; the terminal
\* handlers have none.
\* caught of handlers without a try block.
caughtNowhere(s) == Threw

caught(s) ==
  IF slot[s].via \in {"session", "example"} THEN json("false", 500, slot[s].id) ELSE Threw

\* json(result): the runner's result, wrapped by runSession under a session id.
resultResponse(s, ok) ==
  Response("json", 200, IF ok THEN "true" ELSE "false", slot[s].id, SandboxOf(s), "")

\* summary of a result: runSession gives every result the session's
\* resultSummary; of the example runners, runUntrustedCode and
\* runInteractiveDevPreview give the successSummary whatever happened, the
\* others choose by the outcome.
summaryOf(runner, via, succeeded) ==
  IF via = "session" THEN "resultSummary"
  ELSE IF runner \in {"runUntrustedCode", "runInteractiveDevPreview"} THEN "successSummary"
  ELSE IF succeeded THEN "successSummary" ELSE "failureSummary"

\* The result of a runner that ends with sandbox.exec: exitCode and stderr
\* are the command's.
execResult(s, succeeded, exitCode) ==
  [summary |-> summaryOf(slot[s].runner, slot[s].via, succeeded), succeeded |-> succeeded,
   exitCode |-> exitCode, stderr |-> "stderr of the command"]

\* The result of runAiGeneratedCode: stderr: run.error ? JSON.stringify(run.error) : undefined,
\* exitCode: run.error ? 1 : 0
runCodeResult(s, error) ==
  [summary |-> summaryOf(slot[s].runner, slot[s].via, ~error), succeeded |-> ~error,
   exitCode |-> IF error THEN 1 ELSE 0,
   stderr |-> IF error THEN "run.error" ELSE Undefined]

\* Awaited sandbox calls whose result the runner does not look at:
\* pc -> <<operation, next pc>>.
PlainCalls ==
  [c_mkdir |-> <<"mkdir", "c_writeMath">>,
   c_writeMath |-> <<"writeFile", "c_writeTest">>,
   c_writeTest |-> <<"writeFile", "c_exec">>,
   u_mkdir |-> <<"mkdir", "u_writeFile">>,
   u_writeFile |-> <<"writeFile", "u_exec">>,
   p_mkdir |-> <<"mkdir", "p_writeFile">>,
   p_writeFile |-> <<"writeFile", "p_getProcess">>,
   d_mkdir |-> <<"mkdir", "d_writeCsv">>,
   d_writeCsv |-> <<"writeFile", "d_generate">>,
   d_writeCode |-> <<"writeFile", "d_exec">>]

\* const csv = input?.trim() || `region,revenue,users ...`: a CSV text is
\* named by its trimmed content, "default" the built-in one.
csvOf(input) == IF input \in {Undefined, "", " "} THEN "default" ELSE input

SandboxCall(s) ==
  /\ slot[s].pc \in DOMAIN PlainCalls
  /\ \E outcome \in {"ok", "throw"} :
       /\ slot' = [slot EXCEPT
            ![s].ops = Append(@, <<SandboxOf(s), PlainCalls[slot[s].pc][1]>>),
            ![s].da.steps = IF slot[s].runner = "runDataAnalysis" THEN Append(@, slot[s].pc) ELSE @,
            ![s].da.csv = IF slot[s].pc = "d_mkdir" THEN csvOf(slot[s].req.input) ELSE @,
            ![s].pc = IF outcome = "ok" THEN PlainCalls[slot[s].pc][2] ELSE "done",
            ![s].resp = IF outcome = "ok" THEN @ ELSE caught(s)]
       /\ files' = IF slot[s].pc = "d_writeCsv" /\ outcome = "ok"
                   THEN [files EXCEPT !.inputCsv = slot[s].da.csv]
                   ELSE files
  /\ UNCHANGED <<sessions, proc, exposed, ctxRuns, evictions, overlap, Elsewhere>>

\* const result = await sandbox.exec(...) followed by return { ok: result.success, ... }
FinalExecs == {"f_exec", "c_exec", "u_exec"}

SandboxExec(s) ==
  /\ slot[s].pc \in FinalExecs
  /\ \E outcome \in {"success", "failure", "throw"} :
       slot' = [slot EXCEPT
         ![s].ops = Append(@, <<SandboxOf(s), "exec">>),
         ![s].pc = "done",
         ![s].result = IF outcome = "throw" THEN @
                       ELSE execResult(s, outcome = "success", IF outcome = "success" THEN 0 ELSE 1),
         ![s].resp = IF outcome = "throw" THEN caught(s) ELSE resultResponse(s, outcome = "success")]
  /\ UNCHANGED <<Platform, overlap, Elsewhere>>

(***************************************************************************)
(* handleTerminalBootstrap                                                 *)
(***************************************************************************)
TerminalSession == <<RunnerSandboxId("handleTerminalBootstrap"), TerminalSessionId>>

bootstrapResponse ==
  Response("json", 200, "true", <<>>, RunnerSandboxId("handleTerminalBootstrap"), TerminalSessionId)

\* bootstrapFindsSession of a handler that creates the session every time.
bootstrapFindsSessionNever(existing) == FALSE

\* Whether the try block of handleTerminalBootstrap returns a session:
\* sandbox.getSession(id) throws when the sandbox has no such session.
bootstrapFindsSession(existing) == TerminalSession \in existing

\* session = await sandbox.getSession(terminalSessionId), or the catch
BootstrapGetSession(s) ==
  /\ slot[s].pc = "handleTerminalBootstrap"
  /\ slot' = [slot EXCEPT
       ![s].runner = "handleTerminalBootstrap",
       ![s].via = "bootstrap",
       ![s].ops = <<<<TerminalSession[1], "getSandbox">>, <<TerminalSession[1], "getSession">>>>,
       ![s].sessionSeen = IF bootstrapFindsSession(sessions) THEN "found" ELSE "failed",
       ![s].pc = IF bootstrapFindsSession(sessions) THEN "done" ELSE "b_createSession",
       ![s].resp = IF bootstrapFindsSession(sessions) THEN bootstrapResponse ELSE @]
  /\ UNCHANGED <<Platform, overlap, Elsewhere>>

\* session = await sandbox.createSession({ id: terminalSessionId, ... })
BootstrapCreateSession(s) ==
  /\ slot[s].pc = "b_createSession"
  /\ \E outcome \in {"ok", "throw"} :
       /\ slot' = [slot EXCEPT
            ![s].ops = Append(@, <<TerminalSession[1], "createSession">>),
            ![s].sessionAtCreate = IF TerminalSession \in sessions THEN "kept" ELSE "absent",
            ![s].pc = IF outcome = "ok" THEN "b_exec" ELSE "done",
            ![s].resp = IF outcome = "ok" THEN @ ELSE caught(s)]
       /\ sessions' = IF outcome = "ok" THEN sessions \cup {TerminalSession} ELSE sessions
  /\ UNCHANGED <<proc, exposed, ctxRuns, evictions, files, overlap, Elsewhere>>

\* await session.exec(greeting), then return json(response)
BootstrapGreeting(s) ==
  /\ slot[s].pc = "b_exec"
  /\ \E outcome \in {"ok", "throw"} :
       slot' = [slot EXCEPT
         ![s].ops = Append(@, <<TerminalSession[1], "exec">>),
         ![s].pc = "done",
         ![s].resp = IF outcome = "ok" THEN bootstrapResponse ELSE caught(s)]
  /\ UNCHANGED <<Platform, overlap, Elsewhere>>

(***************************************************************************)
(* runAiGeneratedCode                                                      *)
(***************************************************************************)
\* aiCodeContext of a runner that keeps using the sandbox's latest context.
aiCodeContextReused(created) == IF created = 0 THEN 1 ELSE created

\* The context runCode is given: the one createCodeContext just returned,
\* whose number is the count of contexts created so far, itself included.
aiCodeContext(created) == created + 1

\* const context = await sandbox.createCodeContext({ language: 'python', ... })
AiCreateCodeContext(s) ==
  /\ slot[s].pc = "a_createCodeContext"
  /\ \E outcome \in {"ok", "throw"} :
       /\ slot' = [slot EXCEPT
            ![s].ops = Append(@, <<SandboxOf(s), "createCodeContext">>),
            ![s].ctx = IF outcome = "ok" THEN aiCodeContext(Len(ctxRuns)) ELSE @,
            ![s].pc = IF outcome = "ok" THEN "a_runCode" ELSE "done",
            ![s].resp = IF outcome = "ok" THEN @ ELSE caught(s)]
       /\ ctxRuns' = IF outcome = "ok" THEN Append(ctxRuns, 0) ELSE ctxRuns
  /\ UNCHANGED <<sessions, proc, exposed, evictions, files, overlap, Elsewhere>>

\* const run = await sandbox.runCode(code, { context }); ok: !run.error
AiRunCode(s) ==
  /\ slot[s].pc = "a_runCode"
  /\ \E outcome \in {"clean", "error", "throw"} :
       /\ slot' = [slot EXCEPT
            ![s].ops = Append(@, <<SandboxOf(s), "runCode">>),
            ![s].pc = "done",
            ![s].result = IF outcome = "throw" THEN @ ELSE runCodeResult(s, outcome = "error"),
            ![s].resp = IF outcome = "throw" THEN caught(s) ELSE resultResponse(s, outcome = "clean")]
       /\ ctxRuns' = IF outcome = "throw" THEN ctxRuns
                     ELSE [ctxRuns EXCEPT ![slot[s].ctx] = @ + 1]
  /\ UNCHANGED <<sessions, proc, exposed, evictions, files, overlap, Elsewhere>>

(***************************************************************************)
(* runInteractiveDevPreview                                                *)
(***************************************************************************)
\* previewFindsProcess of a runner that starts the server on every request.
previewFindsProcessNever(process) == FALSE

\* Whether the try block around getProcess('preview-server') completes:
\* the lookup throws when the sandbox has no such process.
previewFindsProcess(process) == process # "absent"

\* await sandbox.getProcess('preview-server'): throws when there is none.
PreviewGetProcess(s) ==
  /\ slot[s].pc = "p_getProcess"
  /\ slot' = [slot EXCEPT
       ![s].ops = Append(@, <<SandboxOf(s), "getProcess">>),
       ![s].procAtLookup = IF proc = "absent" THEN "absent" ELSE "kept",
       ![s].pc = IF previewFindsProcess(proc) THEN "p_exposePort" ELSE "p_startProcess"]
  /\ UNCHANGED <<Platform, overlap, Elsewhere>>

\* const process = await sandbox.startProcess(..., { processId: 'preview-server' })
PreviewStartProcess(s) ==
  /\ slot[s].pc = "p_startProcess"
  /\ \E outcome \in {"ok", "throw"} :
       /\ slot' = [slot EXCEPT
            ![s].ops = Append(@, <<SandboxOf(s), "startProcess">>),
            ![s].procAtStart = IF proc = "absent" THEN "absent" ELSE "kept",
            ![s].pc = IF outcome = "ok" THEN "p_waitForPort" ELSE "done",
            ![s].resp = IF outcome = "ok" THEN @ ELSE caught(s)]
       /\ proc' = IF outcome = "ok" /\ proc = "absent" THEN "started" ELSE proc
  /\ UNCHANGED <<sessions, exposed, ctxRuns, evictions, files, overlap, Elsewhere>>

\* await process.waitForPort(8080): resolves once the port accepts
\* connections, rejects on its timeout or when the process is gone.
PreviewWaitForPort(s) ==
  /\ slot[s].pc = "p_waitForPort"
  /\ \E outcome \in {"ok", "throw"} :
       /\ outcome = "ok" => proc # "absent"
       /\ slot' = [slot EXCEPT
            ![s].ops = Append(@, <<SandboxOf(s), "waitForPort">>),
            ![s].pc = IF outcome = "ok" THEN "p_exposePort" ELSE "done",
            ![s].resp = IF outcome = "ok" THEN @ ELSE caught(s)]
       /\ proc' = IF outcome = "ok" THEN "waited" ELSE proc
  /\ UNCHANGED <<sessions, exposed, ctxRuns, evictions, files, overlap, Elsewhere>>

\* const exposed = await sandbox.exposePort(8080, ...), then the result
PreviewExposePort(s) ==
  /\ slot[s].pc = "p_exposePort"
  /\ \E outcome \in {"ok", "throw"} :
       /\ slot' = [slot EXCEPT
            ![s].ops = Append(@, <<SandboxOf(s), "exposePort">>),
            ![s].procSeen = proc,
            ![s].pc = "done",
            ![s].result = IF outcome = "ok" THEN execResult(s, TRUE, 0) ELSE @,
            ![s].resp = IF outcome = "ok" THEN resultResponse(s, TRUE) ELSE caught(s)]
       /\ exposed' = (exposed \/ outcome = "ok")
  /\ UNCHANGED <<sessions, proc, ctxRuns, evictions, files, overlap, Elsewhere>>

(***************************************************************************)
(* runDataAnalysis                                                         *)
(***************************************************************************)
\* withTimeout(promise, ms, label) of the three awaits that use it.
WithTimeouts ==
  [d_generate |-> [label |-> "Workers AI analysis code generation", ms |-> 35000],
   d_exec |-> [label |-> "Analysis script execution", ms |-> 50000],
   d_chartExec |-> [label |-> "Chart generation", ms |-> 25000]]

\* timeoutId = setTimeout(() => reject(new Error(...)), ms), and the race begins
WithTimeoutCall(s) ==
  /\ slot[s].pc \in DOMAIN WithTimeouts
  /\ slot[s].da.wt.timer = "none"
  /\ slot' = [slot EXCEPT ![s].da.wt.timer = "armed", ![s].da.wt.set = @ + 1]
  /\ UNCHANGED <<Platform, overlap, Elsewhere>>

\* timerExpires of a timer whose callback never runs.
timerExpiresNever(timer) == FALSE

\* The callback of setTimeout runs once ms milliseconds have passed, unless
\* clearTimeout came first.
timerExpires(timer) == timer = "armed"

\* reject(new Error(`${label} timed out after ${ms}ms`)): the wrapped promise
\* has not settled within ms milliseconds.
WithTimeoutExpires(s) ==
  /\ slot[s].pc \in DOMAIN WithTimeouts
  /\ timerExpires(slot[s].da.wt.timer)
  /\ slot' = [slot EXCEPT ![s].da.wt.timer = "fired",
                          ![s].da.wt.error = WithTimeouts[slot[s].pc]]
  /\ UNCHANGED <<Platform, overlap, Elsewhere>>

\* await Promise.race([promise, timeoutPromise]): the outcomes of the wrapped
\* promise while the timer is armed, "timeout" once it has fired.
raced(timer, outcomes) == IF timer = "fired" THEN {"timeout"} ELSE outcomes

\* finally { if (timeoutId) clearTimeout(timeoutId) }
cleared(wt) == [wt EXCEPT !.timer = "none", !.cleared = @ + 1]

\* generatedCode = await withTimeout(generateDataAnalysisCode(...), 35000, ...)
\* with its catch; the model call is no sandbox operation.  Without text in
\* the model's response generateDataAnalysisCode returns the pandas fallback.
DataGenerate(s) ==
  /\ slot[s].pc = "d_generate"
  /\ slot[s].da.wt.timer # "none"
  /\ \E ai \in raced(slot[s].da.wt.timer, {"text", "noText", "throw"}) :
       slot' = [slot EXCEPT
         ![s].da.steps = Append(@, "d_generate"),
         ![s].da.ai = ai,
         ![s].da.wt = cleared(@),
         ![s].da.usedAiFallback = (ai \in {"throw", "timeout"}),
         ![s].da.code = IF ai = "text" THEN "model" ELSE "pandasFallback",
         ![s].pc = "d_writeCode"]
  /\ UNCHANGED <<Platform, overlap, Elsewhere>>

\* execFallsBack of a runner that also falls back on a non-zero exit.
execFallsBackOnFailure(outcome) == outcome # "success"

\* Whether the catch around the primary exec runs: the exec threw, or
\* withTimeout rejected.
execFallsBack(outcome) == outcome \in {"throw", "timeout"}

\* What a run of analyze.py leaves in chart.png: the model's script may save
\* a chart of input.csv itself, the built-in scripts do not.
savedByScript(da, current, saves) ==
  IF da.code = "model" /\ saves THEN [current EXCEPT !.chartPng = current.inputCsv] ELSE current

\* result = await withTimeout(sandbox.exec('python3 .../analyze.py'), 50000, ...)
DataExec(s) ==
  /\ slot[s].pc = "d_exec"
  /\ slot[s].da.wt.timer # "none"
  /\ \E outcome \in raced(slot[s].da.wt.timer, {"success", "failure", "throw"}), saves \in BOOLEAN :
       /\ slot' = [slot EXCEPT
            ![s].ops = Append(@, <<SandboxOf(s), "exec">>),
            ![s].da.steps = Append(@, "d_exec"),
            ![s].da.exec = outcome,
            ![s].da.wt = cleared(@),
            ![s].da.ran = IF execFallsBack(outcome) THEN @ ELSE slot[s].da.code,
            ![s].da.success = (outcome = "success"),
            ![s].da.usedExecutionFallback = execFallsBack(outcome),
            ![s].pc = IF execFallsBack(outcome) THEN "d_writeFallback" ELSE "d_chartWrite"]
       /\ files' = savedByScript(slot[s].da, files, saves)
  /\ UNCHANGED <<sessions, proc, exposed, ctxRuns, evictions, overlap, Elsewhere>>

\* await sandbox.writeFile('.../analyze-fallback.py', emergencyCode)
DataWriteFallback(s) ==
  /\ slot[s].pc = "d_writeFallback"
  /\ \E outcome \in {"ok", "throw"} :
       slot' = [slot EXCEPT
         ![s].ops = Append(@, <<SandboxOf(s), "writeFile">>),
         ![s].da.steps = Append(@, "d_writeFallback"),
         ![s].pc = IF outcome = "ok" THEN "d_execFallback" ELSE "done",
         ![s].resp = IF outcome = "ok" THEN @ ELSE caught(s)]
  /\ UNCHANGED <<Platform, overlap, Elsewhere>>

\* result = await sandbox.exec('python3 .../analyze-fallback.py', { timeout: 15000 })
DataExecFallback(s) ==
  /\ slot[s].pc = "d_execFallback"
  /\ \E outcome \in {"success", "failure", "throw"} :
       slot' = [slot EXCEPT
         ![s].ops = Append(@, <<SandboxOf(s), "exec">>),
         ![s].da.steps = Append(@, "d_execFallback"),
         ![s].da.execFallback = outcome,
         ![s].da.ran = IF outcome = "throw" THEN @ ELSE "csvFallback",
         ![s].da.success = (outcome = "success"),
         ![s].pc = IF outcome = "throw" THEN "done" ELSE "d_chartWrite",
         ![s].resp = IF outcome = "throw" THEN caught(s) ELSE @]
  /\ UNCHANGED <<Platform, overlap, Elsewhere>>

\* generateChartArtifact: await sandbox.writeFile('.../chart.py', chartScript)
DataChartWrite(s) ==
  /\ slot[s].pc = "d_chartWrite"
  /\ \E outcome \in {"ok", "throw"} :
       slot' = [slot EXCEPT
         ![s].ops = Append(@, <<SandboxOf(s), "writeFile">>),
         ![s].da.steps = Append(@, "d_chartWrite"),
         ![s].da.charted = IF outcome = "ok" THEN @ ELSE "throw",
         ![s].da.chart = IF outcome = "ok" THEN @ ELSE "failed",
         ![s].pc = IF outcome = "ok" THEN "d_chartExec" ELSE "d_readChart"]
  /\ UNCHANGED <<Platform, overlap, Elsewhere>>

\* generateChartArtifact: await withTimeout(sandbox.exec('python3 .../chart.py'), 25000, ...)
\* chart.py saves chart.png, drawn from input.csv, when it runs to its end.
DataChartExec(s) ==
  /\ slot[s].pc = "d_chartExec"
  /\ slot[s].da.wt.timer # "none"
  /\ \E outcome \in raced(slot[s].da.wt.timer, {"success", "failure", "throw"}) :
       /\ slot' = [slot EXCEPT
            ![s].ops = Append(@, <<SandboxOf(s), "exec">>),
            ![s].da.steps = Append(@, "d_chartExec"),
            ![s].da.charted = outcome,
            ![s].da.chartError = slot[s].da.wt.error,
            ![s].da.wt = cleared(@),
            ![s].da.chart = IF outcome \in {"success", "failure"} THEN "saved" ELSE "failed",
            ![s].pc = "d_readChart"]
       /\ files' = IF outcome = "success" THEN [files EXCEPT !.chartPng = files.inputCsv] ELSE files
  /\ UNCHANGED <<sessions, proc, exposed, ctxRuns, evictions, overlap, Elsewhere>>

\* const chartFile = await sandbox.readFile('.../chart.png') with its catch,
\* then the result.  The read throws when there is no such file.
DataReadChart(s) ==
  /\ slot[s].pc = "d_readChart"
  /\ \E outcome \in {"ok", "throw"} :
       /\ outcome = "ok" => files.chartPng # "absent"
       /\ slot' = [slot EXCEPT
            ![s].ops = Append(@, <<SandboxOf(s), "readFile">>),
            ![s].da.steps = Append(@, "d_readChart"),
            ![s].da.read = outcome,
            ![s].da.chartDataUri = (outcome = "ok"),
            ![s].da.chartFrom = IF outcome = "ok" THEN files.chartPng ELSE @,
            ![s].pc = "done",
            ![s].result = execResult(s, slot[s].da.success, IF slot[s].da.success THEN 0 ELSE 1),
            ![s].resp = resultResponse(s, slot[s].da.success)]
  /\ UNCHANGED <<Platform, overlap, Elsewhere>>

(***************************************************************************)
(* handleTerminalWebSocket                                                 *)
(***************************************************************************)
\* url.searchParams.get(key): the first value of the key, or null.
searchGet(search, key) ==
  IF \E i \in 1..Len(search) : search[i][1] = key
  THEN search[CHOOSE i \in 1..Len(search) :
                search[i][1] = key /\ \A j \in 1..(i - 1) : search[j][1] # key][2]
  ELSE Undefined

\* toLowerCase of a comparison that is case-sensitive.
toLowerCaseNone(value) == value

toLowerCase(value) == IF value = "WebSocket" THEN "websocket" ELSE value

\* The value of a digit character.
digitValue(c) ==
  CASE c = "0" -> 0 [] c = "1" -> 1 [] c = "2" -> 2 [] c = "3" -> 3 [] c = "4" -> 4
    [] c = "5" -> 5 [] c = "6" -> 6 [] c = "7" -> 7 [] c = "8" -> 8 [] c = "9" -> 9

\* The digits a string starts with.
RECURSIVE leadingDigits(_)
leadingDigits(value) ==
  IF value # <<>> /\ Head(value) \in Digits
  THEN <<Head(value)>> \o leadingDigits(Tail(value))
  ELSE <<>>

RECURSIVE decimalValue(_)
decimalValue(digits) ==
  IF digits = <<>> THEN 0
  ELSE 10 * decimalValue(SubSeq(digits, 1, Len(digits) - 1)) + digitValue(digits[Len(digits)])

\* Number.parseInt(value, 10): an optional sign and the leading digits;
\* NaN when no digit follows.
parseInt(value) ==
  LET signed == value # <<>> /\ Head(value) \in {"-", "+"}
      digits == leadingDigits(IF signed THEN Tail(value) ELSE value)
  IN IF digits = <<>> THEN [nan |-> TRUE, n |-> 0]
     ELSE [nan |-> FALSE,
           n |-> IF signed /\ Head(value) = "-" THEN 0 - decimalValue(digits) ELSE decimalValue(digits)]

\* positiveInt(value): the number, or undefined (defined = FALSE).  The
\* value <<>> stands for null and for '', which !value treats alike.
positiveInt(value) ==
  IF value = <<>> THEN [defined |-> FALSE, n |-> 0]
  ELSE IF parseInt(value).nan \/ parseInt(value).n <= 0 THEN [defined |-> FALSE, n |-> 0]
  ELSE [defined |-> TRUE, n |-> parseInt(value).n]

\* url.searchParams.get(key) of a size parameter, as characters.
searchChars(search, key) ==
  IF \E i \in 1..Len(search) : search[i][1] = key THEN searchGet(search, key) ELSE <<>>

\* positiveInt(url.searchParams.get(key)) ?? fallback
sizeParam(search, key, fallback) ==
  IF positiveInt(searchChars(search, key)).defined
  THEN positiveInt(searchChars(search, key)).n
  ELSE fallback

TerminalWebSocket(s) ==
  /\ slot[s].pc = "handleTerminalWebSocket"
  /\ LET rq == slot[s].req
         sandboxId == searchGet(rq.url.search, "id")
         sessionId == searchGet(rq.url.search, "session")
     IN IF toLowerCase(rq.upgrade) # "websocket"
        THEN Return(s, json("false", 426, <<>>))
        ELSE IF sandboxId \in {Undefined, ""}
        THEN Return(s, json("false", 400, <<>>))
        ELSE slot' = [slot EXCEPT
               ![s].ops = <<<<sandboxId, "getSandbox">>>>,
               ![s].terminal = <<sandboxId, IF sessionId = Undefined THEN "default" ELSE sessionId>>,
               ![s].size = <<sizeParam(rq.url.search, "cols", 120), sizeParam(rq.url.search, "rows", 30)>>,
               ![s].pc = IF sessionId \in {Undefined, ""} THEN "w_proxyTerminal" ELSE "w_getSession"]
  /\ UNCHANGED <<Platform, overlap, Elsewhere>>

\* await sandbox.getSession(sessionId), or the catch
TerminalGetSession(s) ==
  /\ slot[s].pc = "w_getSession"
  /\ slot' = [slot EXCEPT
       ![s].ops = Append(@, <<slot[s].terminal[1], "getSession">>),
       ![s].pc = IF slot[s].terminal \in sessions THEN "w_proxyTerminal" ELSE "w_createSession"]
  /\ UNCHANGED <<Platform, overlap, Elsewhere>>

\* await sandbox.createSession({ id: sessionId, cwd: '/workspace' })
TerminalCreateSession(s) ==
  /\ slot[s].pc = "w_createSession"
  /\ \E outcome \in {"ok", "throw"} :
       /\ slot' = [slot EXCEPT
            ![s].ops = Append(@, <<slot[s].terminal[1], "createSession">>),
            ![s].pc = IF outcome = "ok" THEN "w_proxyTerminal" ELSE "done",
            ![s].resp = IF outcome = "ok" THEN @ ELSE Threw]
       /\ sessions' = IF outcome = "ok" THEN sessions \cup {slot[s].terminal} ELSE sessions
  /\ UNCHANGED <<proc, exposed, ctxRuns, evictions, files, overlap, Elsewhere>>

\* return await proxyTerminal(sandbox, targetSession, request, { cols, rows })
TerminalProxy(s) ==
  /\ slot[s].pc = "w_proxyTerminal"
  /\ \E outcome \in {"ok", "throw"} :
       slot' = [slot EXCEPT
         ![s].ops = Append(@, <<slot[s].terminal[1], "proxyTerminal">>),
         ![s].pc = "done",
         ![s].resp = IF outcome = "ok" THEN Passed("ws", 101) ELSE Threw]
  /\ UNCHANGED <<Platform, overlap, Elsewhere>>

(***************************************************************************)
(* The platform                                                            *)
(***************************************************************************)
\* The platform puts an idle sandbox to sleep: its sessions and processes
\* are gone with it.
Evict ==
  /\ evictions < MaxEvictions
  /\ evictions' = evictions + 1
  /\ \E sandbox \in {"workshop-terminal", "workshop-interactive-dev"} :
       IF sandbox = "workshop-terminal"
       THEN /\ sessions' = {x \in sessions : x[1] # sandbox}
            /\ UNCHANGED <<proc, exposed>>
       ELSE /\ proc' = "absent"
            /\ exposed' = FALSE
            /\ UNCHANGED sessions
  /\ UNCHANGED <<slot, ctxRuns, files, overlap, Elsewhere>>

(***************************************************************************)
(* Requests                                                                *)
(***************************************************************************)
Url(hostname, port, pathname, search) ==
  [hostname |-> hostname, port |-> port, pathname |-> pathname, search |-> search]

Request(url, hostHeader, method, body, prompt, upgrade) ==
  [url |-> url, hostHeader |-> hostHeader, method |-> method, body |-> body,
   prompt |-> prompt, upgrade |-> upgrade, input |-> Undefined]

HostLocal == <<"localhost">>

HostPreview == <<"8", "0", "-", "x", ".localhost">>

HostDigitsOnly == <<"8", "0", "x", ".localhost">>

HostPreviewElsewhere == <<"8", "0", "-", "x", ".example.com">>

UrlHostnames == {HostLocal, HostPreview, HostDigitsOnly, HostPreviewElsewhere}

Ports == {"", "8787"}

HostHeaders ==
  {<<>>, HostLocal \o <<":", "8787">>, HostPreview, HostPreview \o <<":", "5173">>,
   HostPreview \o <<":">>, HostPreviewElsewhere, HostDigitsOnly}

SearchTerminal == <<<<"id", "workshop-terminal">>, <<"session", "live-terminal">>>>

Searches == {<<>>, SearchTerminal}

PreviewPaths ==
  {LOCAL_PREVIEW_PROXY_PREFIX,
   LOCAL_PREVIEW_PROXY_PREFIX \o <<"/">>,
   LOCAL_PREVIEW_PROXY_PREFIX \o <<"/", "/", "app.js">>,
   LOCAL_PREVIEW_PROXY_PREFIX \o <<"/">> \o HostPreview,
   LOCAL_PREVIEW_PROXY_PREFIX \o <<"/">> \o HostPreview \o <<"/">>,
   LOCAL_PREVIEW_PROXY_PREFIX \o <<"/">> \o HostPreview \o <<"%3A", "5173", "/", "index.html">>,
   LOCAL_PREVIEW_PROXY_PREFIX \o <<"/">> \o HostPreview \o <<":", "5173", "/", "assets", "/", "app.js">>,
   LOCAL_PREVIEW_PROXY_PREFIX \o <<"/">> \o HostPreview \o <<"%zz", "/", "index.html">>,
   LOCAL_PREVIEW_PROXY_PREFIX \o <<"/", "%">>}

SitePaths ==
  {<<"/">>, PathIndexHtml, <<"/", "assets", "/", "app.js">>, <<"/", "sessions", "/", "fundamentals">>,
   PathWsTerminal, PathWsTerminal \o <<"/">>, PathTerminalBootstrap,
   PathTerminalBootstrap \o <<"/", "x">>, PrefixSessionsNoSlash, PrefixSessions,
   <<"/", "api", "/", "examples">>, PrefixExamples, <<"/", "api", "/", "terminal">>}

SessionPaths ==
  {PrefixSessions \o <<id>> : id \in SessionIds \cup ObjectPrototypeKeys \cup {"nope", "data-analysis"}}
    \cup {PrefixSessions \o <<"fundamentals", "/", "x">>}

ExamplePaths ==
  {PrefixExamples \o <<id>> : id \in ExampleIds \cup ObjectPrototypeKeys \cup {"nope", "fundamentals"}}
    \cup {PathGenerate, PathGenerate \o <<"/">>}

\* A path of each route, for the requests that vary the hosts.
ProbePaths ==
  {<<"/">>, PathWsTerminal, PrefixSessions \o <<"nope">>,
   LOCAL_PREVIEW_PROXY_PREFIX \o <<"/">> \o HostPreview \o <<"%3A", "5173", "/", "index.html">>}

\* Body-less requests: every URL host, port, query and Host header on the
\* probe paths, and every path under three host settings.
RoutingRequests ==
  {Request(Url(h, p, path, q), hh, "GET", "none", Undefined, Undefined) :
     h \in UrlHostnames, p \in Ports, q \in Searches, hh \in HostHeaders, path \in ProbePaths}
  \cup
  {Request(Url(hs[1], "8787", path, SearchTerminal), hs[2], "GET", "none", Undefined, Undefined) :
     hs \in {<<HostLocal, <<>>>>, <<HostPreview, HostPreview>>, <<HostLocal, HostPreview \o <<":", "5173">>>>},
     path \in PreviewPaths \cup SitePaths \cup SessionPaths \cup ExamplePaths}

PostBodies ==
  {[method |-> "POST", body |-> "none", prompt |-> Undefined],
   [method |-> "POST", body |-> "invalid", prompt |-> Undefined],
   [method |-> "POST", body |-> "json", prompt |-> Undefined]}

PromptBodies ==
  {[method |-> "POST", body |-> "json", prompt |-> " "],
   [method |-> "POST", body |-> "json", prompt |-> "hi"]}

LocalPost(path, b) ==
  Request(Url(HostLocal, "8787", path, <<>>), HostLocal \o <<":", "8787">>, b.method, b.body, b.prompt, Undefined)

\* POST requests to the development server itself, of every body.
ApiRequests ==
  {LocalPost(path, b) : b \in PostBodies, path \in ExamplePaths}
  \cup {LocalPost(PathGenerate, b) : b \in PromptBodies \cup PostBodies}
  \cup {LocalPost(PrefixSessions \o <<"fundamentals">>, b) : b \in PostBodies}

TerminalSearches ==
  {<<>>, SearchTerminal, <<<<"id", "workshop-terminal">>>>, <<<<"session", "live-terminal">>>>,
   <<<<"id", "">>, <<"session", "live-terminal">>>>,
   <<<<"id", "workshop-terminal">>, <<"session", "">>>>,
   <<<<"id", "workshop-terminal">>, <<"session", "other">>, <<"session", "live-terminal">>>>}

\* Values of the cols and rows parameters.
SizeValues ==
  {<<>>, <<"8", "0">>, <<"0">>, <<"-", "5">>, <<"a", "b">>, <<"1", "2", "a">>, <<"+", "7">>, <<"0", "4", "0">>}

SizedSearches ==
  {SearchTerminal \o <<<<"cols", c>>, <<"rows", r>>>> : c \in SizeValues, r \in {<<>>, <<"2", "4">>, <<"-", "5">>}}
  \cup {<<<<"id", "workshop-terminal">>, <<"rows", <<"2", "4">>>>>>}

TerminalRequests ==
  {Request(Url(HostLocal, "8787", PathWsTerminal, q), HostLocal \o <<":", "8787">>, "GET", "none", Undefined, u) :
     q \in TerminalSearches, u \in {Undefined, "websocket", "WebSocket", "h2c"}}
  \cup
  {Request(Url(HostLocal, "8787", PathWsTerminal, q), HostLocal \o <<":", "8787">>, "GET", "none", Undefined, "websocket") :
     q \in SizedSearches}

FetchRequests == RoutingRequests \cup ApiRequests \cup TerminalRequests

\* The requests of the UI that look up platform state: terminal bootstrap,
\* code execution, preview.
SandboxRequests ==
  {Request(Url(HostLocal, "8787", path, <<>>), HostLocal \o <<":", "8787">>, b.method, b.body, b.prompt, Undefined) :
     b \in {[method |-> "GET", body |-> "none", prompt |-> Undefined]},
     path \in {PathTerminalBootstrap, PrefixSessions \o <<"executing-code">>,
               PrefixExamples \o <<"interactive-dev">>, PrefixSessions \o <<"preview-workflows">>}}

(***************************************************************************)
(* Specifications                                                          *)
(***************************************************************************)
FetchFront(s) ==
  \/ Respond(s)
  \/ HandleLocalPreviewProxyRoute(s)
  \/ ProxyToSandbox(s)
  \/ ProxyRetry(s)
  \/ Route(s)

RunnerSteps(s) ==
  \/ handleSessionRequest(s)
  \/ handleExampleRequest(s)
  \/ SandboxCall(s)
  \/ BootstrapGetSession(s)
  \/ BootstrapCreateSession(s)
  \/ BootstrapGreeting(s)
  \/ AiCreateCodeContext(s)
  \/ AiRunCode(s)
  \/ PreviewGetProcess(s)
  \/ PreviewStartProcess(s)
  \/ PreviewWaitForPort(s)
  \/ PreviewExposePort(s)

OtherSteps(s) ==
  \/ handleAiCodeGeneration(s)
  \/ serveSpaAssets(s)
  \/ SandboxExec(s)
  \/ WithTimeoutCall(s)
  \/ WithTimeoutExpires(s)
  \/ DataGenerate(s)
  \/ DataExec(s)
  \/ DataWriteFallback(s)
  \/ DataExecFallback(s)
  \/ DataChartWrite(s)
  \/ DataChartExec(s)
  \/ DataReadChart(s)
  \/ TerminalWebSocket(s)
  \/ TerminalGetSession(s)
  \/ TerminalCreateSession(s)
  \/ TerminalProxy(s)

\* One request at a time, of every shape, up to the first request that
\* leaves files in the data-analysis sandbox: no other request reads them,
\* and the requests that follow one another there are NextAnalysis's.
NextFetch ==
  \/ \E rq \in FetchRequests : files = NoFiles /\ Receive("r1", rq)
  \/ FetchFront("r1")
  \/ RunnerSteps("r1")
  \/ OtherSteps("r1")

SpecFetch == Init /\ [][NextFetch]_vars

\* Requests of the UI, handled concurrently, on a platform that may evict.
NextSandbox ==
  \/ \E s \in Slots, rq \in SandboxRequests : Receive(s, rq)
  \/ \E s \in Slots : FetchFront(s)
  \/ \E s \in Slots : RunnerSteps(s)
  \/ Evict

SpecSandbox == Init /\ [][NextSandbox]_vars

\* body.input of the data-analysis requests: absent, blank, or a CSV text.
AnalysisInputs == {Undefined, " ", "csvA", "csvB"}

\* The requests that run runDataAnalysis: the data-workflows session, and the
\* data-analysis example with and without a body.
AnalysisRequests ==
  {LocalPost(PrefixSessions \o <<"data-workflows">>, [method |-> "GET", body |-> "none", prompt |-> Undefined])}
  \cup
  {[LocalPost(PrefixExamples \o <<"data-analysis">>, b) EXCEPT !.input = IF b.body = "json" THEN i ELSE Undefined] :
     b \in {[method |-> "GET", body |-> "none", prompt |-> Undefined],
            [method |-> "POST", body |-> "json", prompt |-> "hi"]},
     i \in AnalysisInputs}

\* The steps of a data-analysis request that do not wait for the language
\* model or for the primary exec: a wrapped promise may stay pending for
\* ever, the timer of withTimeout does not.
AnalysisProgress(s) ==
  \/ FetchFront(s)
  \/ handleSessionRequest(s)
  \/ handleExampleRequest(s)
  \/ SandboxCall(s)
  \/ WithTimeoutCall(s)
  \/ WithTimeoutExpires(s)
  \/ slot[s].da.wt.timer = "fired" /\ (DataGenerate(s) \/ DataExec(s) \/ DataChartExec(s))
  \/ DataWriteFallback(s)
  \/ DataExecFallback(s)
  \/ DataChartWrite(s)
  \/ DataReadChart(s)

\* Data-analysis requests, one after the other, against the same sandbox.
NextAnalysis ==
  \/ \E rq \in AnalysisRequests : Receive("r1", rq)
  \/ AnalysisProgress("r1")
  \/ DataGenerate("r1")
  \/ DataExec("r1")
  \/ DataChartExec("r1")

SpecAnalysis == Init /\ [][NextAnalysis]_vars /\ WF_vars(AnalysisProgress("r1"))

(***************************************************************************)
(* buildCsvStructure                                                       *)
(***************************************************************************)
\* What String.prototype.trim removes, among the tokens of the model.
WhiteSpace == {" ", "\t", "\r", "\n"}

RECURSIVE trimStart(_)
trimStart(s) == IF s # <<>> /\ Head(s) \in WhiteSpace THEN trimStart(Tail(s)) ELSE s

RECURSIVE trimEnd(_)
trimEnd(s) ==
  IF s # <<>> /\ s[Len(s)] \in WhiteSpace THEN trimEnd(SubSeq(s, 1, Len(s) - 1)) ELSE s

trim(s) == trimEnd(trimStart(s))

\* csv.split(/\r?\n/): a "\r" right before a "\n" belongs to the separator.
splitLines(text) ==
  LET pieces == SplitOn(text, "\n")
  IN [i \in 1..Len(pieces) |->
        IF i < Len(pieces) /\ pieces[i] # <<>> /\ pieces[i][Len(pieces[i])] = "\r"
        THEN SubSeq(pieces[i], 1, Len(pieces[i]) - 1)
        ELSE pieces[i]]

isNonEmpty(s) == Len(s) > 0

\* line.split(',').map((cell) => cell.trim())
trimmedCells(line) ==
  LET cells == SplitOn(line, ",") IN [i \in 1..Len(cells) |-> trim(cells[i])]

\* /^\d+$/
isDigits(s) == Len(s) >= 1 /\ \A i \in 1..Len(s) : s[i] \in Digits

\* the rest after an optional leading "-"
afterMinus(s) == IF s # <<>> /\ Head(s) = "-" THEN Tail(s) ELSE s

\* /^(true|false)$/i over the spellings the model has tokens for
BoolWords == {"true", "false", "TRUE", "False"}

inferCsvValueType(value) ==
  LET normalized == trim(value)
      digits == afterMinus(normalized)
      point == IndexOf(digits, ".")
  IN IF normalized = <<>> THEN "string"
     ELSE IF isDigits(digits) THEN "int64"
     ELSE IF point # -1 /\ isDigits(SliceTo(digits, 0, point)) /\ isDigits(SliceFrom(digits, point + 1))
     THEN "float64"
     ELSE IF Len(normalized) = 1 /\ normalized[1] \in BoolWords THEN "bool"
     ELSE "string"

\* Object.fromEntries(pairs): one property per distinct key, the last pair
\* of a key giving its value.
fromEntries(pairs) ==
  [k \in {pairs[i][1] : i \in 1..Len(pairs)} |->
     pairs[CHOOSE i \in 1..Len(pairs) :
             pairs[i][1] = k /\ \A j \in (i + 1)..Len(pairs) : pairs[j][1] # k][2]]

\* row[idx] ?? ''   (idx is 0-based)
cellAt(row, idx) == IF idx + 1 <= Len(row) THEN row[idx + 1] ELSE <<>>

\* records.map((row) => row[idx] ?? '').find((value) => value.trim().length > 0) ?? ''
firstPopulated(records, idx) ==
  IF \E r \in 1..Len(records) : trim(cellAt(records[r], idx)) # <<>>
  THEN cellAt(records[CHOOSE r \in 1..Len(records) :
                        /\ trim(cellAt(records[r], idx)) # <<>>
                        /\ \A q \in 1..(r - 1) : trim(cellAt(records[q], idx)) = <<>>], idx)
  ELSE <<>>

\* The object buildCsvStructure hands to JSON.stringify.
buildCsvStructure(text) ==
  LET trimmedLines == [i \in 1..Len(splitLines(text)) |-> trim(splitLines(text)[i])]
      lines == SelectSeq(trimmedLines, isNonEmpty)
  IN IF Len(lines) = 0
     THEN [rows |-> 0, columns |-> <<>>, dtypes |-> <<>>, sample |-> <<>>]
     ELSE LET columns == trimmedCells(lines[1])
              records == [r \in 1..(Len(lines) - 1) |-> trimmedCells(lines[r + 1])]
              shown == SubSeq(records, 1, IF Len(records) < 3 THEN Len(records) ELSE 3)
          IN [rows |-> Len(records),
              columns |-> columns,
              dtypes |-> fromEntries([c \in 1..Len(columns) |->
                           <<columns[c], inferCsvValueType(firstPopulated(records, c - 1))>>]),
              sample |-> [r \in 1..Len(shown) |->
                           fromEntries([c \in 1..Len(columns) |->
                             <<columns[c], cellAt(shown[r], c - 1)>>])]]

\* CSV texts: lines of at most MaxCsvCells cells, joined by line breaks.
MaxCsvCells == 2

MaxCsvRecords == 2

HeaderCells == {<<"a">>, <<"b">>, <<" ", "a", " ">>}

DataCells ==
  {<<>>, <<" ">>, <<"7">>, <<"-", "4", "2">>, <<"1", ".", "5">>, <<"1", ".">>, <<"-">>,
   <<"true">>, <<"False">>, <<"x">>, <<" ", "7", " ">>}

RECURSIVE joinWith(_, _)
joinWith(pieces, sep) ==
  IF Len(pieces) = 0 THEN <<>>
  ELSE IF Len(pieces) = 1 THEN pieces[1]
  ELSE pieces[1] \o <<sep>> \o joinWith(Tail(pieces), sep)

LinesOf(cells) ==
  UNION {{joinWith(row, ",") : row \in [1..n -> cells]} : n \in 1..MaxCsvCells}

TextsOf(headers, rows, n) ==
  {joinWith(<<h>> \o body, "\n") : h \in headers, body \in [1..n -> rows]}

\* Cells for the texts of several records.
FewCells == {<<>>, <<" ">>, <<"7">>, <<"x">>}

CsvTexts(records) ==
  \* a header alone, and a header with one record of every cell
  (UNION {TextsOf(LinesOf(HeaderCells), LinesOf(DataCells), n) : n \in 0..1})
  \* a header and up to that many records
  \cup (UNION {TextsOf(LinesOf(HeaderCells), LinesOf(FewCells), n) : n \in 2..records})
  \* more records than the sample holds
  \cup (UNION {TextsOf({<<"a", ",", "b">>}, {<<"7">>, <<",", "x">>}, n) : n \in 3..4})
  \* blank lines, whitespace lines, CRLF and a final line break
  \cup {<<>>, <<"\n">>, <<" ", "\n", "\r", "\n">>,
        <<"\n", "a", ",", "b", "\r", "\n", "\n", "7", ",", "x", "\r", "\n">>,
        <<"a", "\n", " ", "\n", "7", "\n">>}

InitCsv ==
  /\ InitWorker
  /\ csv \in CsvTexts(MaxCsvRecords)
  /\ structure = NoStructure
  /\ preview = NoPreview
  /\ ui = NoUi
  /\ script = NoScript
  /\ lab = NoLab

\* const csvStructure = buildCsvStructure(csv)
BuildCsvStructure ==
  /\ structure = NoStructure
  /\ structure' = buildCsvStructure(csv)
  /\ UNCHANGED <<slot, Platform, overlap, csv, preview, ui, script, lab>>

NextCsv == BuildCsvStructure

SpecCsv == InitCsv /\ [][NextCsv]_vars

(***************************************************************************)
(* Preview URLs of runInteractiveDevPreview and their way back through the *)
(* local preview proxy route                                               *)
(***************************************************************************)
\* UrlHost of a fallback built from preview.hostname.
UrlHostname(url) == url.hostname

\* url.host: the hostname, with ":" and the port when the URL has one.
UrlHost(url) == IF url.port = "" THEN url.hostname ELSE url.hostname \o <<":", url.port>>

\* encodeURIComponent over the characters a host and a path hold.
encodeURIComponent(s) ==
  [i \in 1..Len(s) |->
     CASE s[i] = ":" -> "%3A"
       [] s[i] = "/" -> "%2F"
       [] OTHER -> s[i]]

\* The URLs here share one scheme, so aligning the protocol changes no port.
normalizeLocalPreviewUrl(exposedUrl, requestUrl) ==
  IF ~isLocalHostname(requestUrl.hostname) \/ ~isLocalHostname(exposedUrl.hostname)
  THEN exposedUrl
  ELSE [exposedUrl EXCEPT !.port = IF requestUrl.port # "" THEN requestUrl.port ELSE @]

forcePreviewIndexUrl(previewUrl) ==
  IF previewUrl.pathname \in {<<"/">>, <<>>}
  THEN [previewUrl EXCEPT !.pathname = PathIndexHtml]
  ELSE previewUrl

\* The fallback URL, or undefined (defined = FALSE).
buildLocalPreviewFallbackUrl(previewUrl, requestUrl) ==
  IF ~isLocalHostname(requestUrl.hostname) \/ ~isLocalHostname(previewUrl.hostname)
  THEN [defined |-> FALSE, url |-> NoUrl]
  ELSE [defined |-> TRUE,
        url |-> [hostname |-> requestUrl.hostname,
                 port |-> requestUrl.port,
                 pathname |-> LOCAL_PREVIEW_PROXY_PREFIX \o <<"/">>
                                \o encodeURIComponent(UrlHost(previewUrl)) \o previewUrl.pathname,
                 search |-> previewUrl.search]]

\* Request URLs of a preview run and the URLs exposePort answers with.
PreviewRequestUrls ==
  {[hostname |-> h, port |-> p, pathname |-> PrefixExamples \o <<"interactive-dev">>, search |-> <<>>] :
     h \in {HostLocal, <<"127.0.0.1">>, <<"app", ".localhost">>, <<"workshop", ".example.com">>},
     p \in Ports}

ExposedUrls ==
  {[hostname |-> h, port |-> p, pathname |-> path, search |-> q] :
     h \in {HostPreview, <<"127.0.0.1">>, HostPreviewElsewhere},
     p \in {"", "8787", "5173"},
     path \in {<<"/">>, PathIndexHtml, <<"/", "assets", "/", "app.js">>},
     q \in {<<>>, <<<<"token", "previewv1">>>>}}

InitPreview ==
  /\ InitWorker
  /\ csv = <<>>
  /\ structure = NoStructure
  /\ \E r \in PreviewRequestUrls, e \in ExposedUrls :
       preview = [NoPreview EXCEPT !.stage = "exposed", !.requestUrl = r, !.exposedAt = e]
  /\ ui = NoUi
  /\ script = NoScript
  /\ lab = NoLab

\* directPreviewUrl and localFallbackPreviewUrl of runInteractiveDevPreview
BuildPreviewUrls ==
  /\ preview.stage = "exposed"
  /\ LET direct == forcePreviewIndexUrl(normalizeLocalPreviewUrl(preview.exposedAt, preview.requestUrl))
     IN preview' = [preview EXCEPT
          !.stage = "built",
          !.directPreviewUrl = direct,
          !.localFallbackPreviewUrl = buildLocalPreviewFallbackUrl(direct, preview.requestUrl)]
  /\ UNCHANGED <<slot, Platform, overlap, csv, structure, ui, script, lab>>

\* The fallback URL is requested: the proxyTarget of handleLocalPreviewProxyRoute
RequestFallbackUrl ==
  /\ preview.stage = "built"
  /\ preview.localFallbackPreviewUrl.defined
  /\ isLocalPreviewPath(preview.localFallbackPreviewUrl.url.pathname)
  /\ ~localPreviewThrows(preview.localFallbackPreviewUrl.url)
  /\ preview' = [preview EXCEPT
       !.stage = "proxied",
       !.proxyTarget = localPreviewTarget(preview.localFallbackPreviewUrl.url)]
  /\ UNCHANGED <<slot, Platform, overlap, csv, structure, ui, script, lab>>

NextPreview == BuildPreviewUrls \/ RequestFallbackUrl

SpecPreview == InitPreview /\ [][NextPreview]_vars

(***************************************************************************)
(* The React UI: App, SessionPage, ExamplePage                             *)
(***************************************************************************)
\* Bounds: component mounts in a run, and requests of the UI in flight.
MaxMounts == 3

MaxUiRequests == 2

\* The routes of App: one per session and one per example.
UiPages ==
  {[kind |-> "session", id |-> "fundamentals"], [kind |-> "session", id |-> "executing-code"],
   [kind |-> "example", id |-> "ai-generated-code"], [kind |-> "example", id |-> "data-analysis"]}

\* <Routes> renders the element of the matching route.  SessionPage elements
\* (and ExamplePage elements) of different routes have the same type at the
\* same place in the tree, so React keeps the component and its useState
\* state and only changes the prop; another type is a new mount.
Navigate(to) ==
  /\ to # ui.page
  /\ IF to.kind = ui.page.kind
     THEN ui' = [ui EXCEPT !.page = to]
     ELSE /\ ui.mount < MaxMounts
          /\ ui' = [ui EXCEPT !.page = to, !.mount = @ + 1, !.state = IdleRunner,
                              !.generating = FALSE]
  /\ UNCHANGED <<slot, Platform, overlap, csv, structure, preview, script, lab>>

UiRequest(type) == [type |-> type, page |-> ui.page.id, mount |-> ui.mount]

\* onClick={runSessionDemo} / onClick={runExample}: the Button is not
\* clickable while its loading prop is set.
ClickRun ==
  /\ ui.page.kind # "none"
  /\ ~ui.state.loading
  /\ Len(ui.requests) < MaxUiRequests
  /\ ui' = [ui EXCEPT !.state = [IdleRunner EXCEPT !.loading = TRUE],
                      !.requests = Append(@, UiRequest("run"))]
  /\ UNCHANGED <<slot, Platform, overlap, csv, structure, preview, script, lab>>

\* onClick={generatePython}, shown on the ai-generated-code example only
ClickGenerate ==
  /\ ui.page = [kind |-> "example", id |-> "ai-generated-code"]
  /\ ~ui.generating
  /\ Len(ui.requests) < MaxUiRequests
  /\ ui' = [ui EXCEPT !.generating = TRUE, !.requests = Append(@, UiRequest("generate"))]
  /\ UNCHANGED <<slot, Platform, overlap, csv, structure, preview, script, lab>>

\* The requests without the one at position i.
withoutRequest(i) == [j \in 1..(Len(ui.requests) - 1) |-> ui.requests[IF j < i THEN j ELSE j + 1]]

\* The awaited fetch of runSessionDemo / runExample settles: setState with
\* the data, or with the error of the catch.  A set state of a component
\* that is no longer mounted has no effect.
RunSettles(i) ==
  /\ i \in 1..Len(ui.requests)
  /\ ui.requests[i].type = "run"
  /\ \E outcome \in {"data", "error"} :
       ui' = [ui EXCEPT
         !.requests = withoutRequest(i),
         !.state = IF ui.requests[i].mount # ui.mount THEN @
                   ELSE IF outcome = "data"
                   THEN [IdleRunner EXCEPT !.data = ui.requests[i].page]
                   ELSE [IdleRunner EXCEPT !.error = ui.requests[i].page]]
  /\ UNCHANGED <<slot, Platform, overlap, csv, structure, preview, script, lab>>

\* The awaited fetch of generatePython settles: setGeneratedCode, or the
\* catch with setState({ loading: false, error }); finally setGenerating(false).
GenerateSettles(i) ==
  /\ i \in 1..Len(ui.requests)
  /\ ui.requests[i].type = "generate"
  /\ \E outcome \in {"code", "error"} :
       ui' = [ui EXCEPT
         !.requests = withoutRequest(i),
         !.generating = IF ui.requests[i].mount # ui.mount THEN @ ELSE FALSE,
         !.state = IF ui.requests[i].mount # ui.mount \/ outcome = "code" THEN @
                   ELSE [IdleRunner EXCEPT !.error = ui.requests[i].page]]
  /\ UNCHANGED <<slot, Platform, overlap, csv, structure, preview, script, lab>>

NextUi ==
  \/ \E to \in UiPages : Navigate(to)
  \/ ClickRun
  \/ ClickGenerate
  \/ \E i \in 1..MaxUiRequests : RunSettles(i)
  \/ \E i \in 1..MaxUiRequests : GenerateSettles(i)

SpecUi == Init /\ [][NextUi]_vars

(***************************************************************************)
(* sanitizePython and stripBlockingPatterns                                *)
(***************************************************************************)
\* Bound: the length, in tokens, of the texts given to the two functions.
MaxScriptLen == 3

\* The markdown fence: three backquotes.
Fence == "fence"

\* content.replace(/^<fence>python\s*/i, ''): the fence and the word at the start
\* of the string, and the white space after them.
withoutPythonFence(s) ==
  IF Len(s) >= 2 /\ s[1] = Fence /\ s[2] \in {"python", "Python"}
  THEN trimStart(SubSeq(s, 3, Len(s)))
  ELSE s

\* .replace(/^<fence>\s*/i, '')
withoutOpeningFence(s) == IF s # <<>> /\ s[1] = Fence THEN trimStart(Tail(s)) ELSE s

\* .replace(/<fence>$/i, '')
withoutClosingFence(s) == IF s # <<>> /\ s[Len(s)] = Fence THEN SubSeq(s, 1, Len(s) - 1) ELSE s

sanitizePython(content) ==
  LET trimmed == trim(content)
      withoutFences == trim(withoutClosingFence(withoutOpeningFence(withoutPythonFence(trimmed))))
  IN IF \A i \in 1..Len(trimmed) : trimmed[i] # Fence THEN trimmed
     ELSE IF withoutFences # <<>> THEN withoutFences ELSE trimmed

\* The three patterns of stripBlockingPatterns: the token the call begins
\* with, whether the pattern asks for .+ and \) after it, and the
\* comment that replaces a match.
BlockingPatterns ==
  <<[opens |-> "plt.show()", args |-> FALSE, comment |-> "# plt.show() removed"],
    [opens |-> "input(", args |-> TRUE, comment |-> "# input(...) removed"],
    [opens |-> "time.sleep(", args |-> TRUE, comment |-> "# time.sleep(...) removed"]>>

\* Tokens whose last character is ")".
ClosingTokens == {")", "plt.show()"}

\* ^ under the m flag: the start of the string, or just after a line break.
atLineStart(s, i) == i = 1 \/ s[i - 1] = "\n"

\* The number of white-space tokens from position i on.
RECURSIVE spaceRun(_, _)
spaceRun(s, i) == IF i <= Len(s) /\ s[i] \in WhiteSpace THEN 1 + spaceRun(s, i + 1) ELSE 0

\* \s*$ from position i on, under the m flag: the white space taken, as much
\* as leaves the end of the string or a line break next; -1 when none does.
trailingTaken(s, i) ==
  LET fits == {t \in 0..spaceRun(s, i) : i + t > Len(s) \/ s[i + t] = "\n"}
  IN IF fits = {} THEN -1 ELSE CHOOSE t \in fits : \A u \in fits : u <= t

\* .+\) after the opening token at position j: the positions of a ")" on
\* the same line with at least one character between, after which \s*$ fits.
closersAfter(s, j) ==
  {q \in (j + 1)..Len(s) :
     /\ s[q] \in ClosingTokens
     /\ \A k \in (j + 1)..q : s[k] # "\n"
     /\ q > j + 1 \/ s[q] # ")"
     /\ trailingTaken(s, q + 1) # -1}

\* The last position of the match of a pattern that begins at position i,
\* 0 when there is none: \s* takes the white space, then the call, then \s*$.
matchEnd(s, i, pattern) ==
  LET j == i + spaceRun(s, i)
  IN IF ~atLineStart(s, i) \/ j > Len(s) \/ s[j] # pattern.opens THEN 0
     ELSE IF ~pattern.args
     THEN IF trailingTaken(s, j + 1) = -1 THEN 0 ELSE j + trailingTaken(s, j + 1)
     ELSE IF closersAfter(s, j) = {} THEN 0
     ELSE LET q == CHOOSE c \in closersAfter(s, j) : \A d \in closersAfter(s, j) : d <= c
          IN q + trailingTaken(s, q + 1)

\* output.replace(pattern, comment) with the g flag: the matches from left
\* to right, none overlapping.
RECURSIVE replaceFrom(_, _, _)
replaceFrom(s, i, pattern) ==
  IF i > Len(s) THEN <<>>
  ELSE IF matchEnd(s, i, pattern) # 0
  THEN <<pattern.comment>> \o replaceFrom(s, matchEnd(s, i, pattern) + 1, pattern)
  ELSE <<s[i]>> \o replaceFrom(s, i + 1, pattern)

stripBlockingPatterns(code) ==
  replaceFrom(replaceFrom(replaceFrom(code, 1, BlockingPatterns[1]), 1, BlockingPatterns[2]),
              1, BlockingPatterns[3])

\* Every string of at most n tokens of a set.
stringsOf(tokens, n) == UNION {[1..k -> tokens] : k \in 0..n}

\* Texts a language model may return, with and without markdown fences.
ModelTexts == stringsOf({Fence, "python", "Python", " ", "\n", "x"}, MaxScriptLen)

\* Scripts with and without the calls stripBlockingPatterns looks for.
Scripts == stringsOf({"plt.show()", "input(", "time.sleep(", ")", "x", " ", "\n"}, MaxScriptLen)

InitScript ==
  /\ InitWorker
  /\ csv = <<>>
  /\ structure = NoStructure
  /\ preview = NoPreview
  /\ ui = NoUi
  /\ lab = NoLab
  /\ script \in {[NoScript EXCEPT !.stage = "given", !.fn = "sanitizePython", !.given = g] : g \in ModelTexts}
               \cup {[NoScript EXCEPT !.stage = "given", !.fn = "stripBlockingPatterns", !.given = g] : g \in Scripts}

\* return sanitizePython(raw), and the same applied to what it returned
SanitizePython ==
  /\ script.stage = "given"
  /\ script.fn = "sanitizePython"
  /\ script' = [script EXCEPT !.stage = "returned",
                              !.returned = sanitizePython(script.given),
                              !.again = sanitizePython(sanitizePython(script.given))]
  /\ UNCHANGED <<slot, Platform, overlap, csv, structure, preview, ui, lab>>

\* const runnableCode = stripBlockingPatterns(generatedCode), and the same
\* applied to what it returned
StripBlockingPatterns ==
  /\ script.stage = "given"
  /\ script.fn = "stripBlockingPatterns"
  /\ script' = [script EXCEPT !.stage = "returned",
                              !.returned = stripBlockingPatterns(script.given),
                              !.again = stripBlockingPatterns(stripBlockingPatterns(script.given))]
  /\ UNCHANGED <<slot, Platform, overlap, csv, structure, preview, ui, lab>>

NextScript ==
  \/ SanitizePython
  \/ StripBlockingPatterns

SpecScript == InitScript /\ [][NextScript]_vars

(***************************************************************************)
(* TerminalLab: the effect that connects the terminal                      *)
(***************************************************************************)
\* Bound: runs of the effect (mounts of the component) in a run of the model.
MaxLabEffects == 2

\* The closure of one run of the effect: whether rootRef.current is set for
\* it, disposed, how far connect() has come, and terminal, addon and
\* resizeObserver ("none" while undefined).
NewEffect ==
  [root |-> TRUE, disposed |-> FALSE, stage |-> "fetching", late |-> FALSE,
   terminal |-> "none", addon |-> "none", resizeObserver |-> "none"]

\* The component is mounted (again, after the cleanup of the earlier run) and
\* useEffect runs: void connect() as far as its first await.
LabMount ==
  /\ Len(lab) < MaxLabEffects
  /\ \A i \in 1..Len(lab) : lab[i].disposed
  /\ lab' = Append(lab, NewEffect)
  /\ UNCHANGED <<slot, Platform, overlap, csv, structure, preview, ui, script>>

\* React detaches the ref of the unmounting component: rootRef.current = null
LabDetachRef(i) ==
  /\ i \in 1..Len(lab)
  /\ lab[i].root
  /\ lab' = [lab EXCEPT ![i].root = FALSE]
  /\ UNCHANGED <<slot, Platform, overlap, csv, structure, preview, ui, script>>

\* The cleanup the effect returned: disposed = true; resizeObserver?.disconnect();
\* addon?.disconnect(); terminal?.dispose()
LabCleanup(i) ==
  /\ i \in 1..Len(lab)
  /\ ~lab[i].disposed
  /\ lab' = [lab EXCEPT
       ![i].disposed = TRUE,
       ![i].resizeObserver = IF @ = "none" THEN @ ELSE "disconnected",
       ![i].addon = IF @ = "none" THEN @ ELSE "disconnected",
       ![i].terminal = IF @ = "none" THEN @ ELSE "disposed"]
  /\ UNCHANGED <<slot, Platform, overlap, csv, structure, preview, ui, script>>

\* connectProceeds of a connect() that does not look at the component.
connectProceedsAlways(root, disposed) == TRUE

\* if (!rootRef.current || disposed) return
connectProceeds(root, disposed) == root /\ ~disposed

\* The statements of connect() after the check run without an await; the
\* one that throws, if any, decides which of the three variables were
\* assigned before the catch.
ConnectThrows == {"none", "terminal.open", "addon.connect", "resizeObserver.observe"}

connected(effect, thrower) ==
  [effect EXCEPT
     !.stage = IF thrower = "none" THEN "connected" ELSE "threw",
     !.terminal = "live",
     !.addon = IF thrower = "terminal.open" THEN @ ELSE "connected",
     !.resizeObserver = IF thrower \in {"terminal.open", "addon.connect"} THEN @ ELSE "observing"]

\* The fetch of /api/terminal/bootstrap settles and connect() resumes: a
\* rejected fetch, a response that is not ok and a body that is no JSON end
\* in the catch; a parsed response goes on to the check and the terminal.
LabBootstrapArrives(i) ==
  /\ i \in 1..Len(lab)
  /\ lab[i].stage = "fetching"
  /\ \E outcome \in {"parsed", "rejected", "notOk", "notJson"}, thrower \in ConnectThrows :
       lab' = [lab EXCEPT ![i] =
         IF outcome # "parsed" THEN [@ EXCEPT !.stage = "failed"]
         ELSE IF connectProceeds(@.root, @.disposed) THEN connected(@, thrower)
         ELSE [@ EXCEPT !.stage = "returned", !.late = TRUE]]
  /\ UNCHANGED <<slot, Platform, overlap, csv, structure, preview, ui, script>>

NextLab ==
  \/ LabMount
  \/ \E i \in 1..MaxLabEffects : LabDetachRef(i)
  \/ \E i \in 1..MaxLabEffects : LabCleanup(i)
  \/ \E i \in 1..MaxLabEffects : LabBootstrapArrives(i)

SpecLab == Init /\ [][NextLab]_vars

(***************************************************************************)
(* Properties of the fetch handler                                         *)
(***************************************************************************)
RouteHandlers ==
  {"handleTerminalWebSocket", "handleTerminalBootstrap", "handleSessionRequest",
   "handleExampleRequest", "serveSpaAssets"}

isRouteHandler(h) == h \in RouteHandlers

\* The route handlers a request has been given to, in order.
routed(s) == SelectSeq(slot[s].handlers, isRouteHandler)

\* The request of s is past the proxy stage of fetch.
pastProxy(s) == slot[s].pc \notin {"idle", "localPreview", "proxy", "retry", "route"}

hostOfHeader(rq) ==
  IF IndexOf(rq.hostHeader, ":") = -1 THEN rq.hostHeader
  ELSE SliceTo(rq.hostHeader, 0, IndexOf(rq.hostHeader, ":"))

\* starts with one or more digits followed by "-" and ends with ".localhost"
previewLike(hostname) ==
  /\ Len(hostname) >= 1 /\ hostname[Len(hostname)] = ".localhost"
  /\ \E n \in 1..Len(hostname) :
       /\ n < Len(hostname) /\ hostname[n + 1] = "-"
       /\ \A i \in 1..n : hostname[i] \in Digits

ok502(r) == r.kind = "json" /\ r.status = 502 /\ r.ok = "false"

\* C1: a request that is not under /__sandbox_preview/, that proxyToSandbox
\* does not answer and whose URL hostname and Host-header hostname are both
\* not preview-like is handled by exactly one handler, the one of the first
\* matching rule: /ws/terminal, /api/terminal/bootstrap, /api/sessions/...,
\* /api/examples/..., otherwise the SPA assets.
C1_RoutedByFirstMatchingRule ==
  \A s \in Slots :
    LET rq == slot[s].req
        path == rq.url.pathname
    IN (/\ slot[s].pc \notin {"idle", "localPreview", "proxy", "retry"}
        /\ ~StartsWith(path, <<"/", "__sandbox_preview", "/">>)
        /\ ~previewLike(rq.url.hostname)
        /\ ~previewLike(hostOfHeader(rq))
        /\ \A i \in 1..Len(slot[s].proxyCalls) : ~slot[s].proxyCalls[i].answered)
       => IF slot[s].pc = "route" THEN routed(s) = <<>>
          ELSE routed(s) =
            << CASE path = <<"/", "ws", "/", "terminal">> -> "handleTerminalWebSocket"
                 [] path = <<"/", "api", "/", "terminal", "/", "bootstrap">> -> "handleTerminalBootstrap"
                 [] StartsWith(path, <<"/", "api", "/", "sessions", "/">>) -> "handleSessionRequest"
                 [] StartsWith(path, <<"/", "api", "/", "examples", "/">>) -> "handleExampleRequest"
                 [] OTHER -> "serveSpaAssets" >>

\* C1 witness: /api/sessions (no final slash) went to the SPA assets, and a
\* request below /api/sessions/ to the session handler.
C1_Witness ==
  /\ slot["r1"].pc = "done"
  /\ slot["r1"].req.url.pathname = <<"/", "api", "/", "sessions">>
  /\ ~previewLike(slot["r1"].req.url.hostname)
  /\ ~previewLike(hostOfHeader(slot["r1"].req))
  /\ routed("r1") = <<"serveSpaAssets">>

\* C2: a request whose URL hostname or Host-header hostname is preview-like
\* is answered by a response of proxyToSandbox or by the 502 JSON body with
\* ok=false, and reaches none of the terminal, session, example and SPA
\* handlers.
C2_PreviewHostsOnlyProxied ==
  \A s \in Slots :
    LET rq == slot[s].req
    IN (slot[s].pc = "done" /\ (previewLike(rq.url.hostname) \/ previewLike(hostOfHeader(rq))))
       => /\ slot[s].resp.kind = "proxy" \/ ok502(slot[s].resp)
          /\ routed(s) = <<>>

\* The segment after /__sandbox_preview/, up to the next "/".
hostSegment(path) ==
  LET rest == SubSeq(path, 4, Len(path))
  IN IF IndexOf(rest, "/") = -1 THEN rest ELSE SliceTo(rest, 0, IndexOf(rest, "/"))

pathAfterHostSegment(path) ==
  LET rest == SubSeq(path, 4, Len(path))
  IN IF IndexOf(rest, "/") = -1 THEN <<"/", "index.html">> ELSE SliceFrom(rest, IndexOf(rest, "/"))

\* C3: a request whose path starts with /__sandbox_preview/ is handled by
\* the local preview proxy route alone: proxyToSandbox is called exactly
\* once, for the decoded host segment, the remaining path (/index.html when
\* none follows) and the original query string, and the response is the
\* proxy's or the 502 JSON body with ok=false.
C3_LocalPreviewProxiedOnce ==
  \A s \in Slots :
    LET rq == slot[s].req
        path == rq.url.pathname
        calls == slot[s].proxyCalls
    IN (slot[s].pc = "done" /\ StartsWith(path, <<"/", "__sandbox_preview", "/">>))
       => /\ Len(calls) = 1
          /\ calls[1].url.hostname = hostOfHeader([hostHeader |-> decodeURIComponent(hostSegment(path))])
          /\ calls[1].url.pathname = pathAfterHostSegment(path)
          /\ calls[1].url.search = rq.url.search
          /\ IF calls[1].answered THEN slot[s].resp.kind = "proxy" ELSE ok502(slot[s].resp)
          /\ routed(s) = <<>>

\* The port a Host header names, "" when it names none.
portOfHeader(rq) ==
  LET colon == IndexOf(rq.hostHeader, ":")
      after == SliceFrom(rq.hostHeader, colon + 1)
  IN IF colon = -1 \/ after = <<>> THEN "" ELSE after[1]

\* C4: outside the local preview proxy route fetch calls proxyToSandbox at
\* most twice: first with the original request, and again only if that call
\* returned nothing, the URL hostname is not preview-like and the Host
\* header's hostname is; the second URL is the original with the Host
\* header's hostname, and with its port when it has one.
C4_ProxyRetryOnHostHeader ==
  \A s \in Slots :
    LET rq == slot[s].req
        calls == slot[s].proxyCalls
    IN (slot[s].pc # "idle" /\ ~StartsWith(rq.url.pathname, <<"/", "__sandbox_preview", "/">>))
       => /\ Len(calls) <= 2
          /\ Len(calls) >= 1 => calls[1].url = rq.url
          /\ pastProxy(s) => Len(calls) >= 1
          /\ Len(calls) = 2 =>
               /\ ~calls[1].answered
               /\ ~previewLike(rq.url.hostname)
               /\ previewLike(hostOfHeader(rq))
               /\ calls[2].url =
                    [hostname |-> hostOfHeader(rq),
                     port |-> IF portOfHeader(rq) = "" THEN rq.url.port ELSE portOfHeader(rq),
                     pathname |-> rq.url.pathname,
                     search |-> rq.url.search]

\* C4 witness: a second call went out with the Host header's hostname and
\* port, which differ from the URL's.
C4_Witness ==
  /\ slot["r1"].pc = "done"
  /\ Len(slot["r1"].proxyCalls) = 2
  /\ slot["r1"].req.url.port = "8787"
  /\ slot["r1"].proxyCalls[2].url.port = "5173"
  /\ slot["r1"].proxyCalls[2].url.hostname = HostPreview
  /\ slot["r1"].proxyCalls[2].answered

\* C5: /api/sessions/<id> for an id that is none of the five session ids is
\* answered 404 with ok=false and without a sandbox operation; likewise
\* /api/examples/<id> for an id that is none of the five example ids (and
\* not ai-generated-code/generate), without reading the request body.
C5_UnknownIdIs404 ==
  \A s \in Slots :
    LET path == slot[s].req.url.pathname
        id == SubSeq(path, 6, Len(path))
        is404 == slot[s].resp.kind = "json" /\ slot[s].resp.status = 404 /\ slot[s].resp.ok = "false"
    IN /\ (/\ slot[s].pc = "done"
            /\ routed(s) = <<"handleSessionRequest">>
            /\ id \notin {<<"fundamentals">>, <<"executing-code">>, <<"data-workflows">>,
                           <<"preview-workflows">>, <<"automation-ci">>})
           => (is404 /\ slot[s].ops = <<>>)
       /\ (/\ slot[s].pc = "done"
            /\ routed(s) = <<"handleExampleRequest">>
            /\ id # <<"ai-generated-code", "/", "generate">>
            /\ id \notin {<<"ai-generated-code">>, <<"data-analysis">>, <<"interactive-dev">>,
                           <<"ci-testing">>, <<"security-untrusted">>})
           => (is404 /\ slot[s].ops = <<>> /\ ~slot[s].bodyRead)

(***************************************************************************)
(* Properties of the runners                                               *)
(***************************************************************************)
opsNamed(s, names) == {i \in 1..Len(slot[s].ops) : slot[s].ops[i][2] \in names}

\* C6: in a sequence of /api/terminal/bootstrap requests handled one after
\* the other, createSession('live-terminal') in sandbox workshop-terminal
\* and the greeting exec happen only in a request whose getSession failed,
\* hence never while the platform keeps the session; a successful bootstrap
\* answers ok=true, sandboxId workshop-terminal, sessionId live-terminal.
C6_TerminalSessionCreatedOnce ==
  \A s \in Slots :
    slot[s].req.url.pathname = <<"/", "api", "/", "terminal", "/", "bootstrap">> =>
      /\ opsNamed(s, {"createSession", "exec"}) # {} => slot[s].sessionSeen = "failed"
      /\ \A i \in opsNamed(s, {"getSession", "createSession", "exec"}) :
           slot[s].ops[i][1] = "workshop-terminal"
      /\ (~overlap /\ slot[s].sessionAtCreate # "none") => slot[s].sessionAtCreate = "absent"
      /\ (slot[s].pc = "done" /\ slot[s].resp.kind = "json") =>
           /\ slot[s].resp.status = 200 /\ slot[s].resp.ok = "true"
           /\ slot[s].resp.sandboxId = "workshop-terminal"
           /\ slot[s].resp.sessionId = "live-terminal"

\* C6 witness: with requests handled one at a time and the session kept by
\* the platform, a bootstrap found it and answered without creating it.
C6_Witness ==
  /\ ~overlap
  /\ <<"workshop-terminal", "live-terminal">> \in sessions
  /\ \E s \in Slots :
       /\ slot[s].pc = "done"
       /\ slot[s].req.url.pathname = <<"/", "api", "/", "terminal", "/", "bootstrap">>
       /\ slot[s].sessionSeen = "found"
       /\ opsNamed(s, {"createSession", "exec"}) = {}
       /\ slot[s].resp.ok = "true"

\* C7 as stated: the runs of runAiGeneratedCode execute in one and the same
\* code context.
C7_RunsShareOneContext ==
  \A c, d \in 1..Len(ctxRuns) : (ctxRuns[c] >= 1 /\ ctxRuns[d] >= 1) => c = d

\* C7: every run of runAiGeneratedCode executes in a code context that the
\* same call created and that no other run has executed or will execute in.
C7_EachRunInFreshContext ==
  /\ \A c \in 1..Len(ctxRuns) : ctxRuns[c] <= 1
  /\ \A s \in Slots :
       slot[s].pc = "a_runCode" =>
         /\ slot[s].ctx \in 1..Len(ctxRuns)
         /\ ctxRuns[slot[s].ctx] = 0
         /\ \A t \in Slots \ {s} : slot[t].pc = "a_runCode" => slot[t].ctx # slot[s].ctx

\* C7 witness: two runs have executed, each in a context of its own.
C7_Witness ==
  /\ Len(ctxRuns) = 2
  /\ ctxRuns[1] = 1
  /\ ctxRuns[2] = 1

\* C8: exposePort(8080) is called only when the preview-server process has
\* been started and waitForPort(8080) on it has completed.
C8_ExposeOnlyAfterPortReady ==
  \A s \in Slots : slot[s].procSeen \in {"none", "waited"}

\* The sandbox the claim names for a request, by route and id.
namedSandbox(s) ==
  LET id == slot[s].id
  IN CASE slot[s].via = "bootstrap" -> "workshop-terminal"
       [] slot[s].via = "session" /\ id = <<"fundamentals">> -> "workshop-session-fundamentals"
       [] id \in {<<"ai-generated-code">>, <<"executing-code">>} -> "workshop-ai-generated-code"
       [] id \in {<<"data-analysis">>, <<"data-workflows">>} -> "workshop-data-analysis"
       [] id \in {<<"interactive-dev">>, <<"preview-workflows">>} -> "workshop-interactive-dev"
       [] id \in {<<"ci-testing">>, <<"automation-ci">>} -> "workshop-ci-testing"
       [] id = <<"security-untrusted">> -> "workshop-security-untrusted"
       [] OTHER -> "none"

\* C9: each runner addresses one fixed sandbox identifier: every sandbox
\* operation of an example, session or bootstrap request is on the sandbox
\* named for its runner, and the result's sandboxId is that identifier.
C9_OneSandboxPerRunner ==
  \A s \in Slots :
    slot[s].via \in {"session", "example", "bootstrap"} =>
      /\ \A i \in 1..Len(slot[s].ops) : slot[s].ops[i][1] = namedSandbox(s)
      /\ (slot[s].pc = "done" /\ slot[s].resp.kind = "json" /\ slot[s].resp.status = 200)
           => slot[s].resp.sandboxId = namedSandbox(s)

\* C9 witness: the security-untrusted example has run to its result.
C9_Witness ==
  /\ slot["r1"].pc = "done"
  /\ slot["r1"].via = "example"
  /\ slot["r1"].id = <<"security-untrusted">>
  /\ Len(slot["r1"].ops) >= 3
  /\ slot["r1"].resp.status = 200
  /\ slot["r1"].resp.sandboxId = "workshop-security-untrusted"

(***************************************************************************)
(* Properties of buildCsvStructure                                         *)
(***************************************************************************)
nonBlankLines(text) ==
  SelectSeq([i \in 1..Len(splitLines(text)) |-> trim(splitLines(text)[i])], isNonEmpty)

\* The cell of column c (1-based) in a line, '' when the line has none.
cellOf(line, c) ==
  IF c <= Len(SplitOn(line, ",")) THEN trim(SplitOn(line, ",")[c]) ELSE <<>>

\* The inferred type of a cell, in the words of the claim.
typeOfCell(cell) ==
  LET unsigned == IF cell # <<>> /\ cell[1] = "-" THEN Tail(cell) ELSE cell
      dot == IndexOf(unsigned, ".")
      allDigits(x) == x # <<>> /\ \A i \in 1..Len(x) : x[i] \in Digits
  IN IF allDigits(unsigned) THEN "int64"
     ELSE IF dot # -1 /\ allDigits(SubSeq(unsigned, 1, dot))
                      /\ allDigits(SubSeq(unsigned, dot + 2, Len(unsigned))) THEN "float64"
     ELSE IF cell \in {<<"true">>, <<"false">>, <<"TRUE">>, <<"False">>} THEN "bool"
     ELSE "string"

\* C10: buildCsvStructure ignores blank lines; without a non-blank line it
\* gives rows=0 and empty columns, dtypes and sample; otherwise columns are
\* the trimmed cells of the first non-blank line, rows is the number of
\* non-blank lines minus one, sample has min(3, rows) records keyed by
\* column with '' for a missing cell, and the dtype of each column is the
\* type of its first non-empty cell, 'string' when it has none.
C10_CsvStructure ==
  structure.rows # -1 =>
    LET lines == nonBlankLines(csv)
        cols == Len(structure.columns)
    IN IF Len(lines) = 0
       THEN /\ structure.rows = 0 /\ structure.columns = <<>>
            /\ DOMAIN structure.dtypes = {} /\ structure.sample = <<>>
       ELSE /\ structure.columns = [c \in 1..Len(SplitOn(lines[1], ",")) |-> cellOf(lines[1], c)]
            /\ structure.rows = Len(lines) - 1
            /\ Len(structure.sample) = (IF structure.rows < 3 THEN structure.rows ELSE 3)
            /\ \A r \in 1..Len(structure.sample) : \A c \in 1..cols :
                 structure.sample[r][structure.columns[c]] = cellOf(lines[r + 1], c)
            /\ \A c \in 1..cols :
                 LET populated == {r \in 2..Len(lines) : cellOf(lines[r], c) # <<>>}
                 IN structure.dtypes[structure.columns[c]] =
                      IF populated = {} THEN "string"
                      ELSE typeOfCell(cellOf(lines[CHOOSE r \in populated :
                                                     \A q \in populated : r <= q], c))

(***************************************************************************)
(* Properties of the asset, terminal and generate handlers                 *)
(***************************************************************************)
\* C11: serveSpaAssets fetches the asset binding at most twice: an asset
\* response that is not a 404 is returned as it is, a 404 for a path with a
\* '.' is returned as that 404, and a 404 for a path without a '.' is
\* answered with the result of fetching /index.html from the binding.
C11_SpaFallback ==
  \A s \in Slots :
    (slot[s].pc = "done" /\ routed(s) = <<"serveSpaAssets">>) =>
      LET fetched == slot[s].assetFetches
          path == slot[s].req.url.pathname
          dotted == \E i \in 1..Len(path) : path[i] \in {"index.html", "app.js"}
          answer(f) == /\ slot[s].resp.kind = "asset"
                       /\ slot[s].resp.status = f.status
                       /\ slot[s].resp.id = f.path
      IN /\ Len(fetched) \in 1..2
         /\ fetched[1].path = path
         /\ IF fetched[1].status # 404 \/ dotted
            THEN Len(fetched) = 1 /\ answer(fetched[1])
            ELSE /\ Len(fetched) = 2
                 /\ fetched[2].path = <<"/", "index.html">>
                 /\ answer(fetched[2])

\* C11 witness: a 404 for /sessions/fundamentals was answered with the
\* 200 of /index.html.
C11_Witness ==
  /\ slot["r1"].pc = "done"
  /\ slot["r1"].req.url.pathname = <<"/", "sessions", "/", "fundamentals">>
  /\ Len(slot["r1"].assetFetches) = 2
  /\ slot["r1"].assetFetches[1].status = 404
  /\ slot["r1"].resp.status = 200
  /\ slot["r1"].resp.id = <<"/", "index.html">>

\* C12: handleTerminalWebSocket answers 426 to a request without an
\* Upgrade header naming websocket (in any case), whatever its query; to an
\* upgrade request without the id parameter it answers 400; in both cases
\* it makes no getSandbox, getSession, createSession or proxyTerminal call.
C12_TerminalRejectsEarly ==
  \A s \in Slots :
    (slot[s].pc = "done" /\ routed(s) = <<"handleTerminalWebSocket">>) =>
      LET rq == slot[s].req
          upgrades == rq.upgrade \in {"websocket", "WebSocket"}
          hasId == \E i \in 1..Len(rq.url.search) : rq.url.search[i][1] = "id"
          rejected(status) == /\ slot[s].resp.kind = "json"
                              /\ slot[s].resp.status = status
                              /\ slot[s].resp.ok = "false"
                              /\ slot[s].ops = <<>>
      IN /\ ~upgrades => rejected(426)
         /\ (upgrades /\ ~hasId) => rejected(400)

\* C12 witness: an "Upgrade: WebSocket" request with a session but no id
\* was answered 400.
C12_Witness ==
  /\ slot["r1"].pc = "done"
  /\ slot["r1"].req.upgrade = "WebSocket"
  /\ slot["r1"].req.url.search = <<<<"session", "live-terminal">>>>
  /\ slot["r1"].resp.status = 400
  /\ slot["r1"].ops = <<>>

C14_KnownIdsAnswerJson ==
  \A s \in Slots :
    LET path == slot[s].req.url.pathname
        id == SubSeq(path, 6, Len(path))
        known ==
          \/ /\ routed(s) = <<"handleSessionRequest">>
             /\ id \in {<<"fundamentals">>, <<"executing-code">>, <<"data-workflows">>,
                        <<"preview-workflows">>, <<"automation-ci">>}
          \/ /\ routed(s) = <<"handleExampleRequest">>
             /\ id \in {<<"ai-generated-code">>, <<"data-analysis">>, <<"interactive-dev">>,
                        <<"ci-testing">>, <<"security-untrusted">>}
    IN (slot[s].pc = "done" /\ known) =>
         /\ slot[s].resp.kind = "json"
         /\ slot[s].resp.status \in {200, 500}
         /\ slot[s].resp.status = 500 => (slot[s].resp.ok = "false" /\ slot[s].resp.id = id)

\* C14 witness: a sandbox operation of the ci-testing example failed and
\* the request was answered 500.
C14_Witness ==
  /\ slot["r1"].pc = "done"
  /\ slot["r1"].req.url.pathname = <<"/", "api", "/", "examples", "/", "ci-testing">>
  /\ Len(slot["r1"].ops) >= 3
  /\ slot["r1"].resp.status = 500
  /\ slot["r1"].resp.id = <<"ci-testing">>

\* C15: /api/examples/ai-generated-code/generate calls the language model
\* only for a POST with a prompt that is not empty after trimming: another
\* method gets 405 before the body is read, a missing or whitespace-only
\* prompt gets 400, both without a model call; otherwise the answer is 200
\* with ok=true.
C15_GenerateEndpoint ==
  \A s \in Slots :
    LET rq == slot[s].req
        modelCalls == {i \in 1..Len(slot[s].ops) : slot[s].ops[i] = <<"AI", "run">>}
        answered(status, ok) == /\ slot[s].resp.kind = "json"
                                /\ slot[s].resp.status = status
                                /\ slot[s].resp.ok = ok
    IN (/\ slot[s].pc = "done"
        /\ routed(s) = <<"handleExampleRequest">>
        /\ rq.url.pathname = <<"/", "api", "/", "examples", "/", "ai-generated-code", "/", "generate">>)
       => IF rq.method # "POST"
          THEN answered(405, "false") /\ ~slot[s].bodyRead /\ modelCalls = {}
          ELSE IF rq.prompt \in {"undefined", " "}
          THEN answered(400, "false") /\ modelCalls = {}
          ELSE answered(200, "true") /\ Cardinality(modelCalls) = 1

\* C16: among concurrent /api/terminal/bootstrap requests against a
\* sandbox that has no session live-terminal yet (and is not evicted
\* meanwhile), createSession for live-terminal is invoked at most once.
C16_ConcurrentBootstrapCreatesOnce ==
  evictions = 0 =>
    Cardinality({s \in Slots :
                   /\ slot[s].req.url.pathname = <<"/", "api", "/", "terminal", "/", "bootstrap">>
                   /\ opsNamed(s, {"createSession"}) # {}}) <= 1

\* The names of the sandbox operations of a request, in order.
opNames(s) == [i \in 1..Len(slot[s].ops) |-> slot[s].ops[i][2]]

isEveryRequestOp(name) == name \in {"mkdir", "writeFile", "exposePort"}

\* C17: in preview requests (the interactive-dev example, the
\* preview-workflows session) startProcess for preview-server is called only
\* after the getProcess lookup of the same request threw; with requests
\* handled one after the other it is never called while the platform keeps
\* the process; every request that gives its result has done mkdir, the
\* index.html write and exposePort(8080).
C17_PreviewServerStartedOnce ==
  \A s \in Slots :
    slot[s].req.url.pathname \in {<<"/", "api", "/", "examples", "/", "interactive-dev">>,
                                  <<"/", "api", "/", "sessions", "/", "preview-workflows">>} =>
      /\ opsNamed(s, {"startProcess"}) # {} => slot[s].procAtLookup = "absent"
      /\ Cardinality(opsNamed(s, {"startProcess"})) <= 1
      /\ (~overlap /\ slot[s].procAtStart # "none") => slot[s].procAtStart = "absent"
      /\ (slot[s].pc = "done" /\ slot[s].resp.status = 200) =>
           SelectSeq(opNames(s), isEveryRequestOp) = <<"mkdir", "writeFile", "exposePort">>

\* C17 witness: with requests handled one at a time, a preview request that
\* found the process running gave its result without startProcess.
C17_Witness ==
  /\ ~overlap
  /\ \E s \in Slots :
       /\ slot[s].pc = "done"
       /\ slot[s].req.url.pathname = <<"/", "api", "/", "sessions", "/", "preview-workflows">>
       /\ slot[s].procAtLookup = "kept"
       /\ opsNamed(s, {"startProcess"}) = {}
       /\ opsNamed(s, {"exposePort"}) # {}
       /\ slot[s].resp.status = 200

\* The first value of a query parameter; <<>> when the query has none.
firstValue(search, key) ==
  LET at == {i \in 1..Len(search) : search[i][1] = key}
  IN IF at = {} THEN <<>> ELSE search[CHOOSE i \in at : \A j \in at : i <= j][2]

\* A size parameter for which the claim names the default: absent or empty,
\* without any digit, zero, or negative.
namesDefault(value) ==
  \/ value = <<>>
  \/ \A i \in 1..Len(value) : value[i] \notin Digits
  \/ \A i \in 1..Len(value) : value[i] = "0"
  \/ value[1] = "-"

\* C18: when handleTerminalWebSocket, given a websocket upgrade and an id,
\* calls proxyTerminal: with a session parameter present the session was
\* looked up with getSession before, created only after that, and exists,
\* and proxyTerminal gets that session id; without one, proxyTerminal gets
\* 'default' and no getSession or createSession is made; cols and rows are
\* positive integers, 120 and 30 for a parameter that is absent,
\* non-numeric, zero or negative.
C18_TerminalSessionAndSize ==
  \A s \in Slots :
    LET search == slot[s].req.url.search
        hasSession == \E i \in 1..Len(search) : search[i][1] = "session"
        names == opNames(s)
        at(name) == {i \in 1..Len(names) : names[i] = name}
    IN (routed(s) = <<"handleTerminalWebSocket">> /\ at("proxyTerminal") # {}) =>
         /\ IF hasSession
            THEN /\ slot[s].terminal[2] = firstValue(search, "session")
                 /\ slot[s].terminal \in sessions
                 /\ \E g \in at("getSession") : \A q \in at("proxyTerminal") \cup at("createSession") : g < q
            ELSE /\ slot[s].terminal[2] = "default"
                 /\ at("getSession") \cup at("createSession") = {}
         /\ slot[s].size[1] >= 1 /\ slot[s].size[2] >= 1
         /\ namesDefault(firstValue(search, "cols")) => slot[s].size[1] = 120
         /\ namesDefault(firstValue(search, "rows")) => slot[s].size[2] = 30

(***************************************************************************)
(* Properties of the UI                                                    *)
(***************************************************************************)
\* C19: in SessionPage and ExamplePage the runner state never holds a
\* result and an error at once, and loading is true exactly while a run
\* request of the page's component is outstanding.
C19_RunnerStateFollowsRequests ==
  /\ ~(ui.state.data # "none" /\ ui.state.error # "none")
  /\ ui.state.loading <=>
       \E i \in 1..Len(ui.requests) :
         ui.requests[i].type = "run" /\ ui.requests[i].mount = ui.mount

\* C20: the result or error a page shows comes from a request of the
\* session or example the page displays.
C20_ResultOfThePageShown ==
  /\ ui.state.data # "none" => ui.state.data = ui.page.id
  /\ ui.state.error # "none" => ui.state.error = ui.page.id

(***************************************************************************)
(* Properties of runDataAnalysis                                           *)
(***************************************************************************)
\* The steps of runDataAnalysis in the order of the code.
AnalysisOrder ==
  <<"d_mkdir", "d_writeCsv", "d_generate", "d_writeCode", "d_exec", "d_writeFallback",
    "d_execFallback", "d_chartWrite", "d_chartExec", "d_readChart">>

orderOf(step) == CHOOSE i \in 1..Len(AnalysisOrder) : AnalysisOrder[i] = step

took(s, step) == \E i \in 1..Len(slot[s].da.steps) : slot[s].da.steps[i] = step

\* The request has run runDataAnalysis to its return statement.
analysed(s) == slot[s].pc = "done" /\ took(s, "d_readChart")

\* C21: runDataAnalysis takes its steps in the order mkdir, input.csv,
\* code generation, analyze.py, exec, chart, chart read.  A generation that
\* throws or times out gives the pandas fallback with usedAiFallback; the
\* csv fallback is written and run exactly when the primary exec throws or
\* times out, not on a non-zero exit; and chart failures leave ok alone.
C21_AnalysisOrderAndFallbacks ==
  \A s \in Slots :
    LET da == slot[s].da
    IN /\ \A i, j \in 1..Len(da.steps) : i < j => orderOf(da.steps[i]) < orderOf(da.steps[j])
       /\ \A i \in 1..Len(da.steps) :
            \A before \in {"d_mkdir", "d_writeCsv", "d_generate", "d_writeCode", "d_exec", "d_chartWrite"} :
              orderOf(before) < orderOf(da.steps[i]) => took(s, before)
       /\ da.ai \in {"throw", "timeout"} => da.usedAiFallback /\ da.code = "pandasFallback"
       /\ da.ai \in {"text", "noText"} => ~da.usedAiFallback
       /\ da.exec # "none" =>
            /\ da.usedExecutionFallback <=> da.exec \in {"throw", "timeout"}
            /\ (took(s, "d_writeFallback") \/ slot[s].pc = "d_writeFallback") <=> da.exec \in {"throw", "timeout"}
       /\ took(s, "d_execFallback") => took(s, "d_writeFallback")
       /\ took(s, "d_chartWrite") /\ slot[s].pc = "done" =>
            /\ took(s, "d_readChart")
            /\ slot[s].resp = resultResponse(s, IF da.usedExecutionFallback
                                               THEN da.execFallback = "success"
                                               ELSE da.exec = "success")

\* A request degraded twice and lost its chart, and still answered ok.
C21_Witness ==
  /\ analysed("r1")
  /\ slot["r1"].da.ai = "timeout"
  /\ slot["r1"].da.exec = "timeout"
  /\ slot["r1"].da.execFallback = "success"
  /\ slot["r1"].da.charted = "timeout"
  /\ slot["r1"].da.read = "throw"
  /\ slot["r1"].resp.ok = "true"

\* summary of the result of runDataAnalysis
analysisSummary(da) ==
  IF da.success
  THEN IF da.usedAiFallback
       THEN IF da.usedExecutionFallback
            THEN "Analysis completed with AI and execution fallbacks (timeout recovery)."
            ELSE "Pandas analysis completed in sandbox using fallback script (AI timeout)."
       ELSE IF da.usedExecutionFallback
            THEN "Analysis completed using execution fallback script (timeout recovery)."
            ELSE "AI-generated pandas analysis completed in sandbox."
  ELSE "AI-generated analysis failed. Review stderr output."

\* C22: the result of a data analysis describes the code that ran: the
\* summary 'AI-generated pandas analysis completed in sandbox.' with
\* usedAiFallback false is given only when analyze.py came from text of the
\* language model, and details.generatedCode is the code whose run produced
\* the output, stderr and exit code returned.
C22_ResultDescribesCodeRun ==
  \A s \in Slots :
    analysed(s) =>
      /\ (/\ analysisSummary(slot[s].da) = "AI-generated pandas analysis completed in sandbox."
          /\ ~slot[s].da.usedAiFallback)
           => slot[s].da.code = "model"
      /\ slot[s].da.code = slot[s].da.ran

\* C23: over a sequence of data-analysis requests a result carries a
\* chartDataUri only if the chart generation of the same request succeeded,
\* the chart carried is drawn from the input.csv of that request, and the
\* chartGenerationMessage returned is never the initial 'skipped' one.
C23_ChartOfThisRequest ==
  \A s \in Slots :
    analysed(s) =>
      /\ slot[s].da.chartDataUri => slot[s].da.chart = "saved" /\ slot[s].da.chartFrom = slot[s].da.csv
      /\ slot[s].da.chart # "skipped"

\* withTimeout at rest: no timer is live, and every timer set was cleared.
timersCleared(s) == slot[s].da.wt.timer = "none" /\ slot[s].da.wt.set = slot[s].da.wt.cleared

\* C24: a data-analysis request completes even when the language model and
\* the primary exec never answer, as long as the other sandbox calls do:
\* withTimeout settles with the wrapped promise's outcome if that comes
\* first and otherwise rejects with its label and its milliseconds, and it
\* leaves no timer behind.
C24_AnalysisCompletes ==
  /\ [](\A s \in Slots :
          /\ slot[s].pc \notin DOMAIN WithTimeouts => timersCleared(s)
          /\ slot[s].pc \in DOMAIN WithTimeouts /\ slot[s].da.wt.timer = "fired"
               => slot[s].da.wt.error = WithTimeouts[slot[s].pc]
          /\ slot[s].da.ai = "timeout" => slot[s].da.wt.set >= 1
          /\ slot[s].da.charted = "timeout"
               => slot[s].da.chartError = [label |-> "Chart generation", ms |-> 25000])
  /\ (slot["r1"].runner = "runDataAnalysis") ~> (slot["r1"].pc = "done")

\* A request whose model call and primary exec both never answered has returned.
C24_Witness ==
  /\ analysed("r1")
  /\ slot["r1"].da.ai = "timeout"
  /\ slot["r1"].da.exec = "timeout"
  /\ slot["r1"].da.wt.set = 3
  /\ timersCleared("r1")

(***************************************************************************)
(* Properties of the results                                               *)
(***************************************************************************)
\* The request has returned the result of a runner.
resulted(s) == slot[s].pc = "done" /\ slot[s].result.summary # "none"

\* C25: in every session and example result ok is true exactly when the
\* sandbox execution behind it succeeded; for runAiGeneratedCode ok, exit
\* code 0 and an absent stderr go together; and a result with ok false
\* never carries a success summary.
C25_OkMeansSucceeded ==
  \A s \in Slots :
    resulted(s) =>
      /\ slot[s].resp.ok = "true" <=> slot[s].result.succeeded
      /\ slot[s].runner = "runAiGeneratedCode" =>
           /\ slot[s].resp.ok = "true" <=> slot[s].result.exitCode = 0
           /\ slot[s].resp.ok = "true" <=> slot[s].result.stderr = Undefined
      /\ slot[s].resp.ok = "false" => slot[s].result.summary # "successSummary"

(***************************************************************************)
(* Properties of TerminalLab                                               *)
(***************************************************************************)
\* Nothing the effect created is live.
released(effect) ==
  /\ effect.terminal # "live"
  /\ effect.addon # "connected"
  /\ effect.resizeObserver # "observing"

\* C26: an effect of TerminalLab that is cleaned up before its bootstrap
\* response is parsed never creates a terminal, an addon connection or a
\* resize observer; one cleaned up afterwards has its observer and addon
\* disconnected and its terminal disposed; after unmount nothing it
\* created is live.
C26_TerminalLabReleases ==
  \A i \in 1..Len(lab) :
    /\ lab[i].late =>
         lab[i].terminal = "none" /\ lab[i].addon = "none" /\ lab[i].resizeObserver = "none"
    /\ lab[i].disposed /\ lab[i].stage = "fetching" =>
         lab[i].terminal = "none" /\ lab[i].addon = "none" /\ lab[i].resizeObserver = "none"
    /\ lab[i].disposed => released(lab[i])
    /\ lab[i].disposed /\ lab[i].stage = "connected" =>
         /\ lab[i].terminal = "disposed"
         /\ lab[i].addon = "disconnected"
         /\ lab[i].resizeObserver = "disconnected"

\* One effect was cleaned up before its response came and created nothing;
\* the next connected and was cleaned up afterwards.
C26_Witness ==
  /\ Len(lab) = 2
  /\ lab[1].late /\ lab[1].disposed /\ lab[1].terminal = "none"
  /\ lab[2].stage = "connected" /\ lab[2].disposed /\ lab[2].terminal = "disposed"

(***************************************************************************)
(* Properties of sanitizePython and stripBlockingPatterns                  *)
(***************************************************************************)
sanitized == script.stage = "returned" /\ script.fn = "sanitizePython"

\* C27: what sanitizePython returns neither starts nor ends with a markdown
\* fence, is the trimmed input when the input holds no fence, and is left
\* as it is by sanitizePython.
C27_SanitizeRemovesFences ==
  sanitized =>
    /\ ~StartsWith(script.returned, <<Fence>>)
    /\ ~EndsWith(script.returned, <<Fence>>)
    /\ (\A i \in 1..Len(script.given) : script.given[i] # Fence) => script.returned = trim(script.given)
    /\ script.again = script.returned

stripped == script.stage = "returned" /\ script.fn = "stripBlockingPatterns"

\* A line that is nothing but a call the patterns are meant for, white
\* space around it aside: plt.show(), input(...) or time.sleep(...).
isBlockingLine(line) ==
  LET call == trim(line)
  IN \/ call = <<"plt.show()">>
     \/ /\ Len(call) >= 2
        /\ call[1] \in {"input(", "time.sleep("}
        /\ call[Len(call)] = ")"
        /\ \A i \in 2..(Len(call) - 1) : call[i] \in {"x", " "}

commentOf(line) ==
  LET opens == trim(line)[1]
  IN (CHOOSE i \in 1..Len(BlockingPatterns) : BlockingPatterns[i].opens = opens) 

\* C28: stripBlockingPatterns replaces each line that is only a plt.show(),
\* input(...) or time.sleep(...) call by a comment line, leaves every other
\* line as it is and keeps the number of lines; what it returns holds no
\* such line; applied twice it gives what it gives once.
C28_StripReplacesBlockingLines ==
  stripped =>
    LET before == SplitOn(script.given, "\n")
        after == SplitOn(script.returned, "\n")
    IN /\ Len(after) = Len(before)
       /\ \A i \in 1..Len(before) :
            i <= Len(after) =>
              IF isBlockingLine(before[i])
              THEN after[i] = <<BlockingPatterns[commentOf(before[i])].comment>>
              ELSE after[i] = before[i]
       /\ \A i \in 1..Len(after) : ~isBlockingLine(after[i])
       /\ script.again = script.returned

====
